---- MODULE Spec2Model ----
(***************************************************************************)
(* Model of the SSE delta-log parser core (parser_logic.py): the line      *)
(* filter, the five named-format accumulators, the generic extractor, the  *)
(* path resolver, the trailing-JSON scanner and the format detector.       *)
(*                                                                         *)
(* Python strings are TLA+ strings (TLC evaluates Len, \o and SubSeq on    *)
(* them).  A decoded JSON value / Python value is a one-field record whose *)
(* field name is its type:                                                 *)
(*   [null |-> TRUE]  [bool |-> b]  [num |-> n]  [str |-> s]               *)
(*   [list |-> <<v1, ..., vn>>]     [obj |-> [key |-> value, ...]]         *)
(* Python None and JSON null are the same value (json.loads maps null to   *)
(* None).                                                                  *)
(***************************************************************************)
EXTENDS Integers, Sequences, FiniteSets, TLC

(***************************************************************************)
(* Bounds of the model.                                                    *)
(***************************************************************************)
MaxLines == 3
MaxTextLen == 6
MaxTokens == 5

(***************************************************************************)
(* Python values.                                                          *)
(***************************************************************************)
None == [null |-> TRUE]
JBool(b) == [bool |-> b]
JNum(n) == [num |-> n]
JStr(s) == [str |-> s]
JList(l) == [list |-> l]
JObj(f) == [obj |-> f]
EmptyDict == [obj |-> <<>>]
EmptyList == [list |-> <<>>]

IsNone(v) == DOMAIN v = {"null"}
IsBool(v) == DOMAIN v = {"bool"}
IsNum(v) == DOMAIN v = {"num"}
IsStr(v) == DOMAIN v = {"str"}
IsList(v) == DOMAIN v = {"list"}
IsDict(v) == DOMAIN v = {"obj"}

\* isinstance(v, int): bool is a subclass of int in Python.
IsInt(v) == IsNum(v) \/ IsBool(v)

\* bool(v): the truth value Python gives v in `if v:` and `a or b`.
Truthy(v) ==
  IF IsNone(v) THEN FALSE
  ELSE IF IsBool(v) THEN v.bool
  ELSE IF IsNum(v) THEN v.num # 0
  ELSE IF IsStr(v) THEN v.str # ""
  ELSE IF IsList(v) THEN v.list # <<>>
  ELSE DOMAIN v.obj # {}

\* `key in d` for a dict d.
HasKey(d, k) == k \in DOMAIN d.obj

\* d.get(k, default) for a dict d.
GetOr(d, k, default) == IF k \in DOMAIN d.obj THEN d.obj[k] ELSE default

\* d.get(k) for a dict d.
Get(d, k) == GetOr(d, k, None)

\* d[k] = v on a dict d.
SetKey(d, k, v) ==
  JObj([x \in DOMAIN d.obj \cup {k} |-> IF x = k THEN v ELSE d.obj[x]])

(***************************************************************************)
(* Python string operations.                                               *)
(***************************************************************************)
CharAt(s, i) == SubSeq(s, i, i)

\* s.startswith(p)
StartsWith(s, p) == Len(p) <= Len(s) /\ SubSeq(s, 1, Len(p)) = p

\* s.endswith(p)
EndsWith(s, p) == Len(p) <= Len(s) /\ SubSeq(s, Len(s) - Len(p) + 1, Len(s)) = p

\* p in s
Contains(s, p) == \E i \in 1..(Len(s) - Len(p) + 1) : SubSeq(s, i, i + Len(p) - 1) = p

IsSpace(c) == c \in {" ", "\t", "\n", "\r"}

\* s.strip()
Strip(s) ==
  IF s = "" THEN ""
  ELSE IF ~IsSpace(CharAt(s, 1)) /\ ~IsSpace(CharAt(s, Len(s))) THEN s
  ELSE IF \A i \in 1..Len(s) : IsSpace(CharAt(s, i)) THEN ""
  ELSE LET first == CHOOSE i \in 1..Len(s) :
                      ~IsSpace(CharAt(s, i)) /\ \A j \in 1..(i - 1) : IsSpace(CharAt(s, j))
           last == CHOOSE i \in 1..Len(s) :
                     /\ ~IsSpace(CharAt(s, Len(s) + 1 - i))
                     /\ \A j \in 1..(i - 1) : IsSpace(CharAt(s, Len(s) + 1 - j))
       IN SubSeq(s, first, Len(s) + 1 - last)

\* s.find(c) as a 1-based index, 0 when c does not occur (Python: -1).
Find(s, c) ==
  IF \A i \in 1..Len(s) : CharAt(s, i) # c THEN 0
  ELSE CHOOSE i \in 1..Len(s) : CharAt(s, i) = c /\ \A j \in 1..(i - 1) : CharAt(s, j) # c

\* The one element of a set of one element: CHOOSE x \in {e} : TRUE is e,
\* evaluated once.
Only(S) == CHOOSE x \in S : TRUE

\* s.split('\n')
RECURSIVE SplitLines(_)
SplitLines(s) ==
  Only({ LET n == Find(v, "\n")
         IN IF n = 0 THEN <<v>>
            ELSE <<SubSeq(v, 1, n - 1)>> \o SplitLines(SubSeq(v, n + 1, Len(v)))
         : v \in {s} })

\* '\n'.join(ls): how a log of several lines is written down.
RECURSIVE JoinLines(_)
JoinLines(ls) ==
  IF ls = <<>> THEN ""
  ELSE IF Len(ls) = 1 THEN ls[1]
  ELSE ls[1] \o "\n" \o JoinLines(Tail(ls))

\* A join that puts the later strings first; it differs from ''.join on
\* every list of two different strings.
RECURSIVE JoinStrReversed(_)
JoinStrReversed(ss) == IF ss = <<>> THEN "" ELSE JoinStrReversed(Tail(ss)) \o ss[1].str

\* ''.join(ss) for a list of str.
RECURSIVE JoinStr(_)
JoinStr(ss) == IF ss = <<>> THEN "" ELSE ss[1].str \o JoinStr(Tail(ss))

(***************************************************************************)
(* The JSON documents of the model: each is the text of one well-formed   *)
(* JSON object together with the value json.loads decodes it to.  O*:      *)
(* OpenAI-style chunks, A*: Anthropic events, G*: Gemini chunks, P*: JSON  *)
(* Patch operations, M*: multi-agent events, H*: chunks whose fields have  *)
(* an unexpected type, J*: objects found trailing in accumulated text.     *)
(***************************************************************************)
\* BEGIN documents
O1 ==
  [text |-> "{\"id\":\"x\",\"model\":\"m\",\"choices\":[{\"delta\":{\"content\":\"Hel\"}}]}",
   value |-> JObj([id |-> JStr("x"), model |-> JStr("m"),
      choices |-> JList(<<JObj([delta |-> JObj([content |-> JStr("Hel")])])>>)])]

O2 ==
  [text |-> "{\"choices\":[{\"delta\":{\"content\":\"lo\",\"tool_calls\":[{\"function\":{\"arguments\":\"{\\\"a\\\":\"}},{\"function\":{\"arguments\":\"1}\"}}]}}]}",
   value |-> JObj([choices |-> JList(<<JObj([delta |-> JObj([content |-> JStr("lo"),
      tool_calls |-> JList(<<JObj([function |-> JObj([arguments |-> JStr("{\"a\":")])]),
      JObj([function |-> JObj([arguments |-> JStr("1}")])])>>)])])>>)])]

O3 ==
  [text |-> "{\"usage\":{\"total_tokens\":5},\"created\":1700000000,\"system_fingerprint\":\"fp\"}",
   value |-> JObj([usage |-> JObj([total_tokens |-> JNum(5)]),
      created |-> JNum(1700000000), system_fingerprint |-> JStr("fp")])]

O4 ==
  [text |-> "{\"usage\":null,\"model\":null,\"created\":true,\"choices\":[]}",
   value |-> JObj([usage |-> None, model |-> None, created |-> JBool(TRUE),
      choices |-> EmptyList])]

O5 ==
  [text |-> "{\"usage\":{\"total_tokens\":9},\"choices\":[{\"delta\":{\"content\":\"!\"}}]}",
   value |-> JObj([usage |-> JObj([total_tokens |-> JNum(9)]),
      choices |-> JList(<<JObj([delta |-> JObj([content |-> JStr("!")])])>>)])]

O7 ==
  [text |-> "{\"usage\":{},\"choices\":[{\"delta\":{\"content\":\"?\"}}]}",
   value |-> JObj([usage |-> EmptyDict,
      choices |-> JList(<<JObj([delta |-> JObj([content |-> JStr("?")])])>>)])]

O6 ==
  [text |-> "{\"choices\":[{\"delta\":{\"content\":\"{\\\"a\"}}]}",
   value |-> JObj([choices |-> JList(<<JObj([delta |-> JObj([content |-> JStr("{\"a")])])>>)])]

HO1 ==
  [text |-> "{\"choices\":[{\"delta\":null}]}",
   value |-> JObj([choices |-> JList(<<JObj([delta |-> None])>>)])]

HO2 ==
  [text |-> "{\"choices\":[\"x\"]}",
   value |-> JObj([choices |-> JList(<<JStr("x")>>)])]

HO3 ==
  [text |-> "{\"choices\":[{\"delta\":{\"tool_calls\":null}}]}",
   value |-> JObj([choices |-> JList(<<JObj([delta |-> JObj([tool_calls |-> None])])>>)])]

HO4 ==
  [text |-> "{\"choices\":[{\"delta\":{\"content\":5}}]}",
   value |-> JObj([choices |-> JList(<<JObj([delta |-> JObj([content |-> JNum(5)])])>>)])]

A1 ==
  [text |-> "{\"type\":\"message_start\",\"message\":{\"id\":\"msg_1\",\"role\":\"assistant\",\"model\":\"claude\",\"usage\":{\"input_tokens\":10}}}",
   value |-> JObj([type |-> JStr("message_start"),
      message |-> JObj([id |-> JStr("msg_1"), role |-> JStr("assistant"),
      model |-> JStr("claude"),
      usage |-> JObj([input_tokens |-> JNum(10)])])])]

A2 ==
  [text |-> "{\"type\":\"content_block_delta\",\"index\":0,\"delta\":{\"type\":\"text_delta\",\"text\":\"Hi\"}}",
   value |-> JObj([type |-> JStr("content_block_delta"), index |-> JNum(0),
      delta |-> JObj([type |-> JStr("text_delta"), text |-> JStr("Hi")])])]

A3 ==
  [text |-> "{\"type\":\"content_block_delta\",\"delta\":{\"type\":\"input_json_delta\",\"partial_json\":\"{\\\"a\\\":1}\"}}",
   value |-> JObj([type |-> JStr("content_block_delta"),
      delta |-> JObj([type |-> JStr("input_json_delta"),
      partial_json |-> JStr("{\"a\":1}")])])]

A4 ==
  [text |-> "{\"type\":\"message_delta\",\"delta\":{\"stop_reason\":\"end_turn\"},\"usage\":{\"output_tokens\":5}}",
   value |-> JObj([type |-> JStr("message_delta"),
      delta |-> JObj([stop_reason |-> JStr("end_turn")]),
      usage |-> JObj([output_tokens |-> JNum(5)])])]

A5 ==
  [text |-> "{\"type\":\"content_block_stop\"}",
   value |-> JObj([type |-> JStr("content_block_stop")])]

A6 ==
  [text |-> "{\"type\":\"ping\"}",
   value |-> JObj([type |-> JStr("ping")])]

A7 ==
  [text |-> "{\"type\":\"message_start\",\"message\":{\"usage\":{\"cache\":1}}}",
   value |-> JObj([type |-> JStr("message_start"),
      message |-> JObj([usage |-> JObj([cache |-> JNum(1)])])])]

A8 ==
  [text |-> "{\"type\":\"message_delta\",\"usage\":{\"cache\":2}}",
   value |-> JObj([type |-> JStr("message_delta"),
      usage |-> JObj([cache |-> JNum(2)])])]

A9 ==
  [text |-> "{\"type\":\"message_start\",\"message\":{\"usage\":{\"input_tokens\":0}}}",
   value |-> JObj([type |-> JStr("message_start"),
      message |-> JObj([usage |-> JObj([input_tokens |-> JNum(0)])])])]

A10 ==
  [text |-> "{\"type\":\"message_delta\",\"usage\":{\"output_tokens\":0}}",
   value |-> JObj([type |-> JStr("message_delta"),
      usage |-> JObj([output_tokens |-> JNum(0)])])]

A11 ==
  [text |-> "{\"delta\":{\"type\":\"text_delta\",\"text\":\"zz\"},\"usage\":{\"output_tokens\":3},\"message\":{\"id\":\"m\"}}",
   value |-> JObj([delta |-> JObj([type |-> JStr("text_delta"),
      text |-> JStr("zz")]), usage |-> JObj([output_tokens |-> JNum(3)]),
      message |-> JObj([id |-> JStr("m")])])]

A12 ==
  [text |-> "{\"type\":\"content_block_start\",\"index\":0}",
   value |-> JObj([type |-> JStr("content_block_start"),
      index |-> JNum(0)])]

A13 ==
  [text |-> "{\"type\":\"message_stop\"}",
   value |-> JObj([type |-> JStr("message_stop")])]

A14 ==
  [text |-> "{\"type\":\"error\",\"delta\":{\"type\":\"text_delta\",\"text\":\"E\"},\"usage\":{\"output_tokens\":8}}",
   value |-> JObj([type |-> JStr("error"),
      delta |-> JObj([type |-> JStr("text_delta"), text |-> JStr("E")]),
      usage |-> JObj([output_tokens |-> JNum(8)])])]

F1 ==
  [text |-> "{\"type\":\"content_block_delta\",\"index\":1,\"delta\":{\"text\":\"No\"},\"usage\":{\"n\":1}}",
   value |-> JObj([type |-> JStr("content_block_delta"), index |-> JNum(1),
      delta |-> JObj([text |-> JStr("No")]),
      usage |-> JObj([n |-> JNum(1)])])]

F2 ==
  [text |-> "{\"index\":0,\"delta\":{\"text\":\"Zz\"}}",
   value |-> JObj([index |-> JNum(0),
      delta |-> JObj([text |-> JStr("Zz")])])]

HA1 ==
  [text |-> "{\"type\":\"message_start\",\"message\":null}",
   value |-> JObj([type |-> JStr("message_start"), message |-> None])]

HA2 ==
  [text |-> "{\"type\":\"content_block_delta\",\"delta\":{\"type\":\"text_delta\",\"text\":7}}",
   value |-> JObj([type |-> JStr("content_block_delta"),
      delta |-> JObj([type |-> JStr("text_delta"), text |-> JNum(7)])])]

G1 ==
  [text |-> "{\"candidates\":[{\"content\":{\"parts\":[{\"text\":\"Hello\"}]}}],\"modelVersion\":\"g1\"}",
   value |-> JObj([candidates |-> JList(<<JObj([content |-> JObj([parts |-> JList(<<JObj([text |-> JStr("Hello")])>>)])])>>),
      modelVersion |-> JStr("g1")])]

G2 ==
  [text |-> "{\"candidates\":[{\"content\":{\"parts\":[{\"text\":\"Hello world\"}]}}]}",
   value |-> JObj([candidates |-> JList(<<JObj([content |-> JObj([parts |-> JList(<<JObj([text |-> JStr("Hello world")])>>)])])>>)])]

G3 ==
  [text |-> "{\"candidates\":[{\"content\":{\"parts\":[{\"text\":\"Hello world!\"}]},\"finishReason\":\"STOP\"}],\"usageMetadata\":{\"promptTokenCount\":3,\"totalTokenCount\":9}}",
   value |-> JObj([candidates |-> JList(<<JObj([content |-> JObj([parts |-> JList(<<JObj([text |-> JStr("Hello world!")])>>)]),
      finishReason |-> JStr("STOP")])>>),
      usageMetadata |-> JObj([promptTokenCount |-> JNum(3),
      totalTokenCount |-> JNum(9)])])]

G4 ==
  [text |-> "{\"candidates\":[{\"content\":{\"parts\":[{\"text\":\"Bye\"},{\"text\":\"Bye now\"}]}}]}",
   value |-> JObj([candidates |-> JList(<<JObj([content |-> JObj([parts |-> JList(<<JObj([text |-> JStr("Bye")]),
      JObj([text |-> JStr("Bye now")])>>)])])>>)])]

G5 ==
  [text |-> "{\"usageMetadata\":{\"other\":1}}",
   value |-> JObj([usageMetadata |-> JObj([other |-> JNum(1)])])]

G6 ==
  [text |-> "{\"candidates\":[{\"content\":{\"parts\":[{\"text\":\"A\"}]}},{\"content\":{\"parts\":[{\"text\":\"B\"}]},\"finishReason\":\"MAX\"}],\"modelVersion\":\"g1\"}",
   value |-> JObj([candidates |-> JList(<<JObj([content |-> JObj([parts |-> JList(<<JObj([text |-> JStr("A")])>>)])]),
      JObj([content |-> JObj([parts |-> JList(<<JObj([text |-> JStr("B")])>>)]),
      finishReason |-> JStr("MAX")])>>), modelVersion |-> JStr("g1")])]

G7 ==
  [text |-> "{\"candidates\":[{\"content\":{\"parts\":[{\"text\":\"Hello\"}]},\"finishReason\":\"LENGTH\"}],\"modelVersion\":\"g2\"}",
   value |-> JObj([candidates |-> JList(<<JObj([content |-> JObj([parts |-> JList(<<JObj([text |-> JStr("Hello")])>>)]),
      finishReason |-> JStr("LENGTH")])>>), modelVersion |-> JStr("g2")])]

HG1 ==
  [text |-> "{\"candidates\":[{\"content\":null}]}",
   value |-> JObj([candidates |-> JList(<<JObj([content |-> None])>>)])]

HG2 ==
  [text |-> "{\"candidates\":[{\"content\":{\"parts\":[{\"text\":5}]}}]}",
   value |-> JObj([candidates |-> JList(<<JObj([content |-> JObj([parts |-> JList(<<JObj([text |-> JNum(5)])>>)])])>>)])]

P1 ==
  [text |-> "{\"op\":\"add\",\"path\":\"/streamed_output/-\",\"value\":{\"content\":\"He\"}}",
   value |-> JObj([op |-> JStr("add"), path |-> JStr("/streamed_output/-"),
      value |-> JObj([content |-> JStr("He")])])]

P2 ==
  [text |-> "{\"op\":\"add\",\"path\":\"/logs/x/content\",\"value\":\"llo\"}",
   value |-> JObj([op |-> JStr("add"), path |-> JStr("/logs/x/content"),
      value |-> JStr("llo")])]

P3 ==
  [text |-> "{\"op\":\"append\",\"path\":\"/logs/x/content\",\"value\":5}",
   value |-> JObj([op |-> JStr("append"), path |-> JStr("/logs/x/content"),
      value |-> JNum(5)])]

P4 ==
  [text |-> "{\"op\":\"append\",\"path\":\"/logs/x/other\",\"value\":\"zz\"}",
   value |-> JObj([op |-> JStr("append"), path |-> JStr("/logs/x/other"),
      value |-> JStr("zz")])]

P5 ==
  [text |-> "{\"op\":\"replace\",\"path\":\"/logs/x/content\",\"value\":\"yy\"}",
   value |-> JObj([op |-> JStr("replace"), path |-> JStr("/logs/x/content"),
      value |-> JStr("yy")])]

P6 ==
  [text |-> "{\"op\":\"add\",\"path\":\"/content\",\"value\":{\"content\":null}}",
   value |-> JObj([op |-> JStr("add"), path |-> JStr("/content"),
      value |-> JObj([content |-> None])])]

P7 ==
  [text |-> "{\"op\":\"add\",\"path\":\"/n/content\",\"value\":{\"a\":[1,\"x\",null,true]}}",
   value |-> JObj([op |-> JStr("add"), path |-> JStr("/n/content"),
      value |-> JObj([a |-> JList(<<JNum(1), JStr("x"), None,
      JBool(TRUE)>>)])])]

P8 ==
  [text |-> "{\"op\":\"append\",\"path\":\"/x/content\",\"value\":null}",
   value |-> JObj([op |-> JStr("append"), path |-> JStr("/x/content"),
      value |-> None])]

P9 ==
  [text |-> "{\"op\":\"add\",\"value\":\"q\"}",
   value |-> JObj([op |-> JStr("add"), value |-> JStr("q")])]

HP1 ==
  [text |-> "{\"op\":\"add\",\"path\":null,\"value\":\"x\"}",
   value |-> JObj([op |-> JStr("add"), path |-> None, value |-> JStr("x")])]

M1 ==
  [text |-> "{\"status\":\"connected\"}",
   value |-> JObj([status |-> JStr("connected")])]

M2 ==
  [text |-> "{\"event_type\":\"stream\",\"workflow_id\":\"w1\",\"node_id\":\"n1\",\"step\":1,\"timestamp\":\"t1\",\"content\":[{\"type\":\"text\",\"text\":\"Hi \"},{\"type\":\"tool_use\",\"input\":{\"q\":1}},{\"type\":\"text\",\"text\":\"there\"}]}",
   value |-> JObj([event_type |-> JStr("stream"),
      workflow_id |-> JStr("w1"), node_id |-> JStr("n1"), step |-> JNum(1),
      timestamp |-> JStr("t1"),
      content |-> JList(<<JObj([type |-> JStr("text"),
      text |-> JStr("Hi ")]), JObj([type |-> JStr("tool_use"),
      input |-> JObj([q |-> JNum(1)])]), JObj([type |-> JStr("text"),
      text |-> JStr("there")])>>)])]

M3 ==
  [text |-> "{\"event_type\":\"node_complete\",\"node_id\":\"n1\",\"step\":2}",
   value |-> JObj([event_type |-> JStr("node_complete"),
      node_id |-> JStr("n1"), step |-> JNum(2)])]

M4 ==
  [text |-> "{\"event_type\":\"stream\",\"node_id\":\"n2\",\"step\":3,\"content\":[{\"type\":\"text\",\"text\":\"B\"}],\"usage\":{\"total_tokens\":7}}",
   value |-> JObj([event_type |-> JStr("stream"), node_id |-> JStr("n2"),
      step |-> JNum(3), content |-> JList(<<JObj([type |-> JStr("text"),
      text |-> JStr("B")])>>), usage |-> JObj([total_tokens |-> JNum(7)])])]

M5 ==
  [text |-> "{\"event_type\":\"workflow_complete\",\"step\":4}",
   value |-> JObj([event_type |-> JStr("workflow_complete"),
      step |-> JNum(4)])]

HM1 ==
  [text |-> "{\"event_type\":\"stream\",\"content\":null}",
   value |-> JObj([event_type |-> JStr("stream"), content |-> None])]

HM2 ==
  [text |-> "{\"event_type\":\"stream\",\"content\":[{\"type\":\"text\",\"text\":5}]}",
   value |-> JObj([event_type |-> JStr("stream"),
      content |-> JList(<<JObj([type |-> JStr("text"),
      text |-> JNum(5)])>>)])]

J1 ==
  [text |-> "{\"a\":1}",
   value |-> JObj([a |-> JNum(1)])]

J2 ==
  [text |-> "{\"q\": 1}",
   value |-> JObj([q |-> JNum(1)])]

J3 ==
  [text |-> "{}",
   value |-> EmptyDict]

JsonDocs ==
  { O1, O2, O3, O4, O5, O7, O6, HO1, HO2, HO3,
    HO4, A1, A2, A3, A4, A5, A6, A7, A8, A9,
    A10, A11, A12, A13, A14, F1, F2, HA1, HA2, G1,
    G2, G3, G4, G5, G6, G7, HG1, HG2, P1, P2,
    P3, P4, P5, P6, P7, P8, P9, HP1, M1, M2,
    M3, M4, M5, HM1, HM2, J1, J2, J3 }
\* END documents

(***************************************************************************)
(* Texts that start with '{' and fail to decode, with the message of the   *)
(* json.JSONDecodeError that json.loads raises on them.                    *)
(***************************************************************************)
Bad1 ==
  [text |-> "{bad",
   msg |-> "Expecting property name enclosed in double quotes: line 1 column 2 (char 1)"]

Bad2 ==
  [text |-> "{\"a\":}",
   msg |-> "Expecting value: line 1 column 6 (char 5)"]

BadDocs == { Bad1, Bad2 }

\* A decoder that takes a text that is not well-formed for an empty object
\* instead of raising.
json_loads_lenient(s) ==
  IF \E d \in JsonDocs : d.text = s
  THEN [ok |-> TRUE, value |-> (CHOOSE d \in JsonDocs : d.text = s).value]
  ELSE IF \E b \in BadDocs : b.text = s
  THEN [ok |-> TRUE, value |-> EmptyDict]
  ELSE [ok |-> FALSE, msg |-> "Expecting value: line 1 column 1 (char 0)"]

\* json.loads(s): the decoded value, or the JSONDecodeError and its message.
\* A text that is not one of the documents above is not well-formed JSON.
json_loads(s) ==
  IF \E d \in JsonDocs : d.text = s
  THEN [ok |-> TRUE, value |-> (CHOOSE d \in JsonDocs : d.text = s).value]
  ELSE IF \E b \in BadDocs : b.text = s
  THEN [ok |-> FALSE, msg |-> (CHOOSE b \in BadDocs : b.text = s).msg]
  ELSE [ok |-> FALSE, msg |-> "Expecting value: line 1 column 1 (char 0)"]

\* str(e)[:50] of a decode error
ErrorSliceLen == 50

Min(a, b) == IF a <= b THEN a ELSE b

\* The message without the slice: f"JSON parse error: {e}"
ParseErrorMessageWhole(msg) == "JSON parse error: " \o msg

\* f"JSON parse error: {str(e)[:50]}"
ParseErrorMessage(msg) ==
  "JSON parse error: " \o SubSeq(msg, 1, Min(ErrorSliceLen, Len(msg)))

(***************************************************************************)
(* The inline line filter of the named-format accumulators.                *)
(***************************************************************************)
\* meta_messages of parse_orchestrator_logs, parse_anthropic_logs and
\* parse_gemini_logs
MetaMessagesDefault ==
  { "[DONE]", "start", "end", "reserved",
    "data: [DONE]", "data: start", "data: end", "data: reserved" }

\* meta_messages of parse_playground_logs
MetaMessagesPlayground ==
  { "reserved", "start", "end",
    "data:reserved", "data:start", "data:end",
    "data: reserved", "data: start", "data: end" }

\* meta_messages of parse_mas_response_logs
MetaMessagesMas ==
  { "reserved", "start", "end", "[DONE]",
    "data:reserved", "data:start", "data:end", "data:[DONE]",
    "data: reserved", "data: start", "data: end", "data: [DONE]" }

\* meta_messages of extract_sse_chunks
MetaMessagesChunks ==
  { "[DONE]", "start", "end", "reserved",
    "data: [DONE]", "data: start", "data: end", "data: reserved",
    "data:[DONE]", "data:start", "data:end", "data:reserved" }

MetaMessages(f) ==
  IF f = "playground" THEN MetaMessagesPlayground
  ELSE IF f = "mas_response" THEN MetaMessagesMas
  ELSE IF f = "custom" THEN MetaMessagesChunks
  ELSE MetaMessagesDefault

\* A filter that does not take the "data:" prefix off the line.
LinePayloadKeepsPrefix(meta, rawline) ==
  LET line == Strip(rawline)
  IN IF line = "" \/ StartsWith(line, "event:") \/ line \in meta \/ line = "data:"
     THEN [skip |-> TRUE]
     ELSE IF line \in meta \/ ~StartsWith(line, "{")
     THEN [skip |-> TRUE]
     ELSE [skip |-> FALSE, json_str |-> line]

\* A filter that passes over the members of meta_messages only, and hands
\* every other payload to the decoder.
LinePayloadMetaOnly(meta, rawline) ==
  LET line == Strip(rawline)
  IN IF line = "" \/ StartsWith(line, "event:") \/ line \in meta \/ line = "data:"
     THEN [skip |-> TRUE]
     ELSE LET json_str == IF StartsWith(line, "data:")
                          THEN Strip(SubSeq(line, 6, Len(line)))
                          ELSE line
          IN IF json_str = "" \/ json_str \in meta
             THEN [skip |-> TRUE]
             ELSE [skip |-> FALSE, json_str |-> json_str]

\* The part of one loop iteration before json.loads: the text handed to the
\* decoder, or skip when the line is passed over by a `continue`.
LinePayload(meta, rawline) ==
  LET line == Strip(rawline)
  IN IF line = "" \/ StartsWith(line, "event:") \/ line \in meta \/ line = "data:"
     THEN [skip |-> TRUE]
     ELSE LET json_str == IF StartsWith(line, "data:")
                          THEN Strip(SubSeq(line, 6, Len(line)))
                          ELSE line
          IN IF json_str = "" \/ json_str \in meta \/ ~StartsWith(json_str, "{")
             THEN [skip |-> TRUE]
             ELSE [skip |-> FALSE, json_str |-> json_str]

(***************************************************************************)
(* Python operations that raise on a value of the wrong type.  An          *)
(* operator that models code which can raise returns a record whose exc    *)
(* field names the exception ("" when none is raised).                     *)
(***************************************************************************)
\* len(v) is defined
HasLen(v) == IsStr(v) \/ IsList(v) \/ IsDict(v)

\* `for x in v` is defined
Iterable(v) == IsStr(v) \/ IsList(v) \/ IsDict(v)

Chars(s) == [i \in 1..Len(s) |-> JStr(CharAt(s, i))]

RECURSIVE SetToSeq(_)
SetToSeq(S) ==
  IF S = {} THEN <<>>
  ELSE LET x == CHOOSE y \in S : TRUE IN <<x>> \o SetToSeq(S \ {x})

\* The elements `for x in v` yields: the items of a list, the characters of
\* a str, the keys of a dict.
Iter(v) ==
  IF IsList(v) THEN v.list
  ELSE IF IsStr(v) THEN Chars(v.str)
  ELSE [i \in 1..Cardinality(DOMAIN v.obj) |-> JStr(SetToSeq(DOMAIN v.obj)[i])]

(***************************************************************************)
(* datetime.fromtimestamp(n).strftime('%Y-%m-%d %H:%M:%S'), for a process  *)
(* whose local time zone is UTC.  Every integer TLC represents is a        *)
(* timestamp fromtimestamp accepts.                                        *)
(***************************************************************************)
Pad2(n) == IF n < 10 THEN "0" \o ToString(n) ELSE ToString(n)

Pad4(n) ==
  IF n < 10 THEN "000" \o ToString(n)
  ELSE IF n < 100 THEN "00" \o ToString(n)
  ELSE IF n < 1000 THEN "0" \o ToString(n)
  ELSE ToString(n)

FormatTimestamp(n) ==
  LET days == n \div 86400
      secs == n % 86400
      z == days + 719468
      era == z \div 146097
      doe == z - era * 146097
      yoe == (doe - doe \div 1460 + doe \div 36524 - doe \div 146096) \div 365
      doy == doe - (365 * yoe + yoe \div 4 - yoe \div 100)
      mp == (5 * doy + 2) \div 153
      d == doy - (153 * mp + 2) \div 5 + 1
      m == IF mp < 10 THEN mp + 3 ELSE mp - 9
      y == yoe + era * 400 + (IF m <= 2 THEN 1 ELSE 0)
  IN Pad4(y) \o "-" \o Pad2(m) \o "-" \o Pad2(d) \o " "
     \o Pad2(secs \div 3600) \o ":" \o Pad2((secs % 3600) \div 60) \o ":" \o Pad2(secs % 60)

\* int(v) of a value with isinstance(v, int)
IntOf(v) == IF IsBool(v) THEN (IF v.bool THEN 1 ELSE 0) ELSE v.num

(***************************************************************************)
(* parse_orchestrator_logs: the work on one decoded chunk.                 *)
(***************************************************************************)
Raise(e) == [exc |-> e]

metadata_fields == {"id", "created", "model", "object", "service_tier", "system_fingerprint"}

\* The metadata captured from a chunk (the body of `if metadata is None`).
OrchMetadata(chunk) ==
  LET present == {fld \in metadata_fields : HasKey(chunk, fld)}
      formatted == IF "created" \in present /\ IsInt(chunk.obj["created"])
                   THEN {"created_formatted"} ELSE {}
  IN JObj([k \in present \cup formatted |->
             IF k = "created_formatted"
             THEN JStr(FormatTimestamp(IntOf(chunk.obj["created"])))
             ELSE chunk.obj[k]])

\* for tc in tool_calls: the arguments appended, in list order.
RECURSIVE OrchToolCallArgs(_)
OrchToolCallArgs(tcs) ==
  IF tcs = <<>> THEN [exc |-> "", frags |-> <<>>]
  ELSE LET tc == Head(tcs)
       IN IF ~IsDict(tc) THEN Raise("AttributeError")
          ELSE LET func == GetOr(tc, "function", EmptyDict)
               IN IF ~IsDict(func) THEN Raise("AttributeError")
                  ELSE LET args == Get(func, "arguments")
                           rest == OrchToolCallArgs(Tail(tcs))
                       IN IF rest.exc # "" THEN rest
                          ELSE [exc |-> "",
                                frags |-> (IF IsNone(args) THEN <<>> ELSE <<args>>)
                                          \o rest.frags]

\* The fragments one chunk appends to contents.
OrchFragments(chunk) ==
  LET choices == GetOr(chunk, "choices", EmptyList)
  IN IF ~Truthy(choices) THEN [exc |-> "", frags |-> <<>>]
     ELSE IF ~HasLen(choices) THEN Raise("TypeError")
     ELSE IF IsDict(choices) THEN Raise("KeyError")
     ELSE LET first == Iter(choices)[1]
          IN IF ~IsDict(first) THEN Raise("AttributeError")
             ELSE LET delta == GetOr(first, "delta", EmptyDict)
                  IN IF ~IsDict(delta) THEN Raise("AttributeError")
                     ELSE LET content == Get(delta, "content")
                              tool_calls == GetOr(delta, "tool_calls", EmptyList)
                          IN IF ~Iterable(tool_calls) THEN Raise("TypeError")
                             ELSE LET r == OrchToolCallArgs(Iter(tool_calls))
                                  IN IF r.exc # "" THEN r
                                     ELSE [exc |-> "",
                                           frags |-> (IF IsNone(content) THEN <<>>
                                                      ELSE <<content>>) \o r.frags]

\* A usage capture that keeps the first usage it saw.
OrchUsageFirstWins(old, chunk) ==
  IF IsNone(old) /\ HasKey(chunk, "usage") THEN chunk.obj["usage"] ELSE old

\* if 'usage' in chunk and chunk['usage'] is not None: usage = chunk['usage']
OrchUsage(old, chunk) ==
  IF HasKey(chunk, "usage") /\ ~IsNone(chunk.obj["usage"]) THEN chunk.obj["usage"] ELSE old

\* An accumulator that goes on adding the metadata fields of later chunks.
OrchChunkEveryChunk(a, chunk) ==
  LET f == OrchFragments(chunk)
      more == OrchMetadata(chunk)
  IN IF f.exc # "" THEN [a EXCEPT !.exc = f.exc]
     ELSE [a EXCEPT !.chunk_count = @ + 1,
                    !.metadata = IF IsNone(@) THEN more
                                 ELSE JObj([k \in DOMAIN @.obj \cup DOMAIN more.obj |->
                                              IF k \in DOMAIN @.obj THEN @.obj[k]
                                              ELSE more.obj[k]]),
                    !.contents = @ \o f.frags,
                    !.usage = OrchUsage(@, chunk)]

\* The try-block of the loop body on a decoded chunk: the accumulator after
\* it, or the exception that leaves the call.
OrchChunk(a, chunk) ==
  LET f == OrchFragments(chunk)
  IN IF f.exc # "" THEN [a EXCEPT !.exc = f.exc]
     ELSE [a EXCEPT !.chunk_count = @ + 1,
                    !.metadata = IF IsNone(@) THEN OrchMetadata(chunk) ELSE @,
                    !.contents = @ \o f.frags,
                    !.usage = OrchUsage(@, chunk)]

(***************************************************************************)
(* str(v), repr(v) and json.dumps(v).  The strings that reach repr hold no *)
(* apostrophe, backslash or control character, so repr puts them between   *)
(* apostrophes unchanged; a dict is rendered key by key in the order       *)
(* SetToSeq gives (the dicts rendered in the model have one key).          *)
(***************************************************************************)
RECURSIVE JoinWith(_, _)
JoinWith(ss, sep) ==
  IF ss = <<>> THEN ""
  ELSE IF Len(ss) = 1 THEN ss[1]
  ELSE ss[1] \o sep \o JoinWith(Tail(ss), sep)

RECURSIVE PyRepr(_)
PyRepr(v) ==
  IF IsNone(v) THEN "None"
  ELSE IF IsBool(v) THEN (IF v.bool THEN "True" ELSE "False")
  ELSE IF IsNum(v) THEN ToString(v.num)
  ELSE IF IsStr(v) THEN "'" \o v.str \o "'"
  ELSE IF IsList(v)
  THEN "[" \o JoinWith([i \in 1..Len(v.list) |-> PyRepr(v.list[i])], ", ") \o "]"
  ELSE LET keys == SetToSeq(DOMAIN v.obj)
       IN "{" \o JoinWith([i \in 1..Len(keys) |->
                             "'" \o keys[i] \o "': " \o PyRepr(v.obj[keys[i]])], ", ")
          \o "}"

\* str(v)
PyStr(v) == IF IsStr(v) THEN v.str ELSE PyRepr(v)

\* The JSON string literal of s: quotation marks and backslashes escaped.
JsonQuote(s) ==
  "\"" \o JoinWith([i \in 1..Len(s) |->
                      IF CharAt(s, i) \in {"\"", "\\"} THEN "\\" \o CharAt(s, i)
                      ELSE CharAt(s, i)], "")
  \o "\""

\* json.dumps(v)
RECURSIVE JsonDumps(_)
JsonDumps(v) ==
  IF IsNone(v) THEN "null"
  ELSE IF IsBool(v) THEN (IF v.bool THEN "true" ELSE "false")
  ELSE IF IsNum(v) THEN ToString(v.num)
  ELSE IF IsStr(v) THEN JsonQuote(v.str)
  ELSE IF IsList(v)
  THEN "[" \o JoinWith([i \in 1..Len(v.list) |-> JsonDumps(v.list[i])], ", ") \o "]"
  ELSE LET keys == SetToSeq(DOMAIN v.obj)
       IN "{" \o JoinWith([i \in 1..Len(keys) |->
                             JsonQuote(keys[i]) \o ": " \o JsonDumps(v.obj[keys[i]])], ", ")
          \o "}"

\* {k: v for k, v in d.items() if v is not None}
DropNone(d) == JObj([k \in {x \in DOMAIN d.obj : ~IsNone(d.obj[x])} |-> d.obj[k]])

(***************************************************************************)
(* parse_anthropic_logs: the work on one decoded chunk.                    *)
(***************************************************************************)
\* a + b of Python
PyAdd(x, y) ==
  IF IsInt(x) /\ IsInt(y) THEN [exc |-> "", value |-> JNum(IntOf(x) + IntOf(y))]
  ELSE IF IsStr(x) /\ IsStr(y) THEN [exc |-> "", value |-> JStr(x.str \o y.str)]
  ELSE IF IsList(x) /\ IsList(y) THEN [exc |-> "", value |-> JList(x.list \o y.list)]
  ELSE Raise("TypeError")

\* usage = usage or {}
OrEmptyDict(u) == IF Truthy(u) THEN u ELSE EmptyDict

AnthMessageStart(a, chunk) ==
  LET message == GetOr(chunk, "message", EmptyDict)
  IN IF ~IsDict(message) THEN [a EXCEPT !.exc = "AttributeError"]
     ELSE LET meta == IF IsNone(a.metadata)
                      THEN DropNone(JObj([id |-> Get(message, "id"),
                                          type |-> Get(message, "type"),
                                          role |-> Get(message, "role"),
                                          model |-> Get(message, "model")]))
                      ELSE a.metadata
              msg_usage == Get(message, "usage")
          IN IF ~Truthy(msg_usage)
             THEN [a EXCEPT !.chunk_count = @ + 1, !.metadata = meta]
             ELSE IF ~IsDict(msg_usage) THEN [a EXCEPT !.exc = "AttributeError"]
             ELSE [a EXCEPT !.chunk_count = @ + 1,
                            !.metadata = meta,
                            !.usage = SetKey(OrEmptyDict(@), "input_tokens",
                                             Get(msg_usage, "input_tokens"))]

AnthContentBlockDelta(a, chunk) ==
  LET delta == GetOr(chunk, "delta", EmptyDict)
  IN IF ~IsDict(delta) THEN [a EXCEPT !.exc = "AttributeError"]
     ELSE LET delta_type == Get(delta, "type")
              piece == IF delta_type = JStr("text_delta") THEN Get(delta, "text")
                       ELSE IF delta_type = JStr("input_json_delta")
                       THEN Get(delta, "partial_json")
                       ELSE None
          IN [a EXCEPT !.chunk_count = @ + 1,
                       !.contents = IF IsNone(piece) THEN @ ELSE Append(@, piece)]

AnthMessageDelta(a, chunk) ==
  LET delta_usage == Get(chunk, "usage")
      u1 == IF ~Truthy(delta_usage) THEN [exc |-> "", value |-> a.usage]
            ELSE IF ~IsDict(delta_usage) THEN Raise("AttributeError")
            ELSE LET u == SetKey(OrEmptyDict(a.usage), "output_tokens",
                                 Get(delta_usage, "output_tokens"))
                 IN IF Truthy(Get(u, "input_tokens")) /\ Truthy(Get(u, "output_tokens"))
                    THEN LET s == PyAdd(u.obj["input_tokens"], u.obj["output_tokens"])
                         IN IF s.exc # "" THEN s
                            ELSE [exc |-> "", value |-> SetKey(u, "total_tokens", s.value)]
                    ELSE [exc |-> "", value |-> u]
  IN IF u1.exc # "" THEN [a EXCEPT !.exc = u1.exc]
     ELSE LET delta == GetOr(chunk, "delta", EmptyDict)
          IN IF ~IsDict(delta) THEN [a EXCEPT !.exc = "AttributeError"]
             ELSE LET stop_reason == Get(delta, "stop_reason")
                  IN [a EXCEPT !.chunk_count = @ + 1,
                               !.usage = u1.value,
                               !.metadata = IF Truthy(stop_reason) /\ Truthy(@)
                                            THEN SetKey(@, "stop_reason", stop_reason)
                                            ELSE @]

\* A dispatch on the event type that counts the chunks of every type.
AnthChunkCountsAll(a, chunk) ==
  LET event_type == Get(chunk, "type")
  IN IF event_type = JStr("message_start") THEN AnthMessageStart(a, chunk)
     ELSE IF event_type = JStr("content_block_delta") THEN AnthContentBlockDelta(a, chunk)
     ELSE IF event_type = JStr("message_delta") THEN AnthMessageDelta(a, chunk)
     ELSE [a EXCEPT !.chunk_count = @ + 1]

AnthChunk(a, chunk) ==
  LET event_type == Get(chunk, "type")
  IN IF event_type = JStr("message_start") THEN AnthMessageStart(a, chunk)
     ELSE IF event_type = JStr("content_block_delta") THEN AnthContentBlockDelta(a, chunk)
     ELSE IF event_type = JStr("message_delta") THEN AnthMessageDelta(a, chunk)
     ELSE IF event_type \in {JStr("content_block_start"), JStr("content_block_stop"),
                             JStr("message_stop")}
     THEN [a EXCEPT !.chunk_count = @ + 1]
     ELSE a

(***************************************************************************)
(* parse_gemini_logs: the work on one decoded chunk.                       *)
(***************************************************************************)
\* A loop over the parts that appends every text whole, without comparing it
\* with last_text.
RECURSIVE GemPartsWhole(_, _)
GemPartsWhole(a, parts) ==
  IF parts = <<>> THEN a
  ELSE LET part == Head(parts)
       IN IF ~IsDict(part) THEN [a EXCEPT !.exc = "AttributeError"]
          ELSE LET t == Get(part, "text")
               IN IF IsNone(t) THEN GemPartsWhole(a, Tail(parts))
                  ELSE IF ~IsStr(t) THEN [a EXCEPT !.exc = "AttributeError"]
                  ELSE GemPartsWhole([a EXCEPT !.contents = Append(@, t),
                                               !.last_text = t.str],
                                     Tail(parts))

\* for part in parts: the accumulator (contents, last_text) after the parts.
RECURSIVE GemParts(_, _)
GemParts(a, parts) ==
  IF parts = <<>> THEN a
  ELSE LET part == Head(parts)
       IN IF ~IsDict(part) THEN [a EXCEPT !.exc = "AttributeError"]
          ELSE LET t == Get(part, "text")
               IN IF IsNone(t) THEN GemParts(a, Tail(parts))
                  ELSE IF ~IsStr(t) THEN [a EXCEPT !.exc = "AttributeError"]
                  ELSE IF StartsWith(t.str, a.last_text)
                  THEN LET delta == SubSeq(t.str, Len(a.last_text) + 1, Len(t.str))
                       IN GemParts([a EXCEPT !.contents = IF delta # ""
                                                         THEN Append(@, JStr(delta))
                                                         ELSE @,
                                             !.last_text = t.str],
                                   Tail(parts))
                  ELSE GemParts([a EXCEPT !.contents = Append(@, t),
                                          !.last_text = t.str],
                                Tail(parts))

\* Lines 598-621: the candidates of the chunk.
GemCandidates(a, chunk) ==
  LET candidates == GetOr(chunk, "candidates", EmptyList)
  IN IF ~Truthy(candidates) THEN a
     ELSE IF ~HasLen(candidates) THEN [a EXCEPT !.exc = "TypeError"]
     ELSE IF IsDict(candidates) THEN [a EXCEPT !.exc = "KeyError"]
     ELSE LET candidate == Iter(candidates)[1]
          IN IF ~IsDict(candidate) THEN [a EXCEPT !.exc = "AttributeError"]
             ELSE LET content == GetOr(candidate, "content", EmptyDict)
                  IN IF ~IsDict(content) THEN [a EXCEPT !.exc = "AttributeError"]
                     ELSE LET parts == GetOr(content, "parts", EmptyList)
                          IN IF ~Iterable(parts) THEN [a EXCEPT !.exc = "TypeError"]
                             ELSE LET b == GemParts(a, Iter(parts))
                                      finish_reason == Get(candidate, "finishReason")
                                  IN IF b.exc # "" THEN b
                                     ELSE IF Truthy(finish_reason) /\ Truthy(b.metadata)
                                     THEN [b EXCEPT !.metadata =
                                             SetKey(@, "finish_reason", finish_reason)]
                                     ELSE b

\* Lines 623-632: usageMetadata.
GemUsage(old, chunk) ==
  LET usage_meta == Get(chunk, "usageMetadata")
  IN IF ~Truthy(usage_meta) THEN [exc |-> "", value |-> old]
     ELSE IF ~IsDict(usage_meta) THEN Raise("AttributeError")
     ELSE [exc |-> "",
           value |-> DropNone(JObj([prompt_tokens |-> Get(usage_meta, "promptTokenCount"),
                                    completion_tokens |-> Get(usage_meta, "candidatesTokenCount"),
                                    total_tokens |-> Get(usage_meta, "totalTokenCount")]))]

GemChunk(a, chunk) ==
  LET a1 == [a EXCEPT !.chunk_count = @ + 1,
                      !.metadata = IF ~IsNone(@) THEN @
                                   ELSE IF HasKey(chunk, "modelVersion")
                                   THEN JObj([model |-> chunk.obj["modelVersion"]])
                                   ELSE EmptyDict]
      a2 == GemCandidates(a1, chunk)
      u == GemUsage(a2.usage, chunk)
  IN IF a2.exc # "" THEN a2
     ELSE IF u.exc # "" THEN [a2 EXCEPT !.exc = u.exc]
     ELSE [a2 EXCEPT !.usage = u.value]

(***************************************************************************)
(* parse_playground_logs: the work on one decoded chunk.                   *)
(***************************************************************************)
\* Fragments where an added object whose content is null is treated like a
\* value that is no such object.
PlayFragmentsFallsThrough(chunk) ==
  LET oper == Get(chunk, "op")
      at == GetOr(chunk, "path", JStr(""))
      value == Get(chunk, "value")
      atContent == IF EndsWith(at.str, "/content") /\ ~IsNone(value)
                   THEN <<JStr(PyStr(value))>> ELSE <<>>
  IN IF oper = JStr("add")
     THEN IF IsDict(value) /\ ~IsNone(Get(value, "content"))
          THEN [exc |-> "", frags |-> <<JStr(PyStr(Get(value, "content")))>>]
          ELSE IF ~IsStr(at) THEN Raise("AttributeError")
          ELSE [exc |-> "", frags |-> atContent]
     ELSE IF oper = JStr("append")
     THEN IF ~IsStr(at) THEN Raise("AttributeError")
          ELSE [exc |-> "", frags |-> atContent]
     ELSE [exc |-> "", frags |-> <<>>]

\* The fragments one chunk appends to contents.
PlayFragments(chunk) ==
  LET oper == Get(chunk, "op")
      path == GetOr(chunk, "path", JStr(""))
      value == Get(chunk, "value")
  IN IF oper = JStr("add")
     THEN IF IsDict(value) /\ HasKey(value, "content")
          THEN [exc |-> "",
                frags |-> IF IsNone(Get(value, "content")) THEN <<>>
                          ELSE <<JStr(PyStr(Get(value, "content")))>>]
          ELSE IF ~IsStr(path) THEN Raise("AttributeError")
          ELSE [exc |-> "",
                frags |-> IF EndsWith(path.str, "/content") /\ ~IsNone(value)
                          THEN <<JStr(PyStr(value))>> ELSE <<>>]
     ELSE IF oper = JStr("append")
     THEN IF ~IsStr(path) THEN Raise("AttributeError")
          ELSE [exc |-> "",
                frags |-> IF EndsWith(path.str, "/content") /\ ~IsNone(value)
                          THEN <<JStr(PyStr(value))>> ELSE <<>>]
     ELSE [exc |-> "", frags |-> <<>>]

PlayChunk(a, chunk) ==
  LET f == PlayFragments(chunk)
  IN IF f.exc # "" THEN [a EXCEPT !.exc = f.exc]
     ELSE [a EXCEPT !.chunk_count = @ + 1, !.contents = @ \o f.frags]

(***************************************************************************)
(* parse_mas_response_logs: the work on one decoded chunk.                 *)
(***************************************************************************)
\* A value that can be a dict key
Hashable(v) == ~IsList(v) /\ ~IsDict(v)

\* node_id in agents_seen
AgentSeen(agents, node_id) == \E i \in 1..Len(agents) : agents[i].obj["node_id"] = node_id

\* for content_item in content_list: the fragments appended, in list order.
RECURSIVE MasItems(_)
MasItems(items) ==
  IF items = <<>> THEN <<>>
  ELSE LET item == Head(items)
           piece ==
             IF ~IsDict(item) THEN <<>>
             ELSE IF Get(item, "type") = JStr("text")
             THEN (IF IsNone(Get(item, "text")) THEN <<>> ELSE <<Get(item, "text")>>)
             ELSE IF Get(item, "type") = JStr("tool_use")
             THEN (IF Truthy(Get(item, "input"))
                   THEN <<JStr(JsonDumps(Get(item, "input")))>> ELSE <<>>)
             ELSE <<>>
       IN piece \o MasItems(Tail(items))

MasChunk(a, chunk) ==
  IF HasKey(chunk, "status") /\ Get(chunk, "status") = JStr("connected") THEN a
  ELSE
  LET event_type == Get(chunk, "event_type")
      workflow_id == Get(chunk, "workflow_id")
      node_id == Get(chunk, "node_id")
      step == Get(chunk, "step")
      meta0 == IF ~IsNone(a.metadata) THEN a.metadata
               ELSE JObj([k \in (IF Truthy(workflow_id) THEN {"workflow_id"} ELSE {})
                                \cup (IF HasKey(chunk, "timestamp") THEN {"started_at"} ELSE {})
                          |-> IF k = "workflow_id" THEN workflow_id
                              ELSE chunk.obj["timestamp"]])
      first_sight == Truthy(node_id) /\ ~AgentSeen(a.agents_seen, node_id)
      agents0 == IF first_sight
                 THEN Append(a.agents_seen, JObj([node_id |-> node_id, first_step |-> step]))
                 ELSE a.agents_seen
      content_list == GetOr(chunk, "content", EmptyList)
      a1 == [a EXCEPT !.chunk_count = @ + 1, !.metadata = meta0, !.agents_seen = agents0]
      a2 == IF event_type = JStr("stream")
            THEN [a1 EXCEPT !.contents = @ \o MasItems(Iter(content_list))]
            ELSE IF event_type = JStr("workflow_complete")
            THEN (IF Truthy(meta0)
                  THEN [a1 EXCEPT !.metadata =
                          SetKey(SetKey(@, "completed_at", Get(chunk, "timestamp")),
                                 "total_steps", step)]
                  ELSE a1)
            ELSE IF event_type = JStr("node_complete")
            THEN (IF Truthy(node_id) /\ AgentSeen(agents0, node_id)
                  THEN [a1 EXCEPT !.agents_seen =
                          [i \in 1..Len(@) |->
                             IF @[i].obj["node_id"] = node_id
                             THEN SetKey(@[i], "last_step", step) ELSE @[i]]]
                  ELSE a1)
            ELSE a1
  IN IF Truthy(node_id) /\ ~Hashable(node_id) THEN [a EXCEPT !.exc = "TypeError"]
     ELSE IF event_type = JStr("stream") /\ ~Iterable(content_list)
     THEN [a EXCEPT !.exc = "TypeError"]
     ELSE [a2 EXCEPT !.usage = IF HasKey(chunk, "usage") /\ Truthy(chunk.obj["usage"])
                               THEN chunk.obj["usage"] ELSE @]

\* Lines 820-823: the agents attached to metadata after the loop.
MasAttachAgents(meta, agents) ==
  IF Truthy(meta) /\ agents # <<>>
  THEN SetKey(SetKey(meta, "agents", JList(agents)), "agent_count", JNum(Len(agents)))
  ELSE meta

(***************************************************************************)
(* get_nested_value: the path micro-language.                              *)
(***************************************************************************)
\* s[i] when the position exists, "" otherwise
CharAtOr(s, i) == IF 1 <= i /\ i <= Len(s) THEN CharAt(s, i) ELSE ""

Digits == {"0", "1", "2", "3", "4", "5", "6", "7", "8", "9"}

\* The characters \w matches (ASCII)
WordChars ==
  Digits \cup {"_"} \cup
  {"a", "b", "c", "d", "e", "f", "g", "h", "i", "j", "k", "l", "m",
   "n", "o", "p", "q", "r", "s", "t", "u", "v", "w", "x", "y", "z",
   "A", "B", "C", "D", "E", "F", "G", "H", "I", "J", "K", "L", "M",
   "N", "O", "P", "Q", "R", "S", "T", "U", "V", "W", "X", "Y", "Z"}

\* The look-ahead (?![^\[]*\]) fails at i: some ']' follows position i with
\* no '[' in between.
ClosesBracket(path, i) ==
  \E j \in (i + 1)..Len(path) :
    /\ CharAt(path, j) = "]"
    /\ \A k \in (i + 1)..(j - 1) : CharAt(path, k) # "["

\* The positions re.split(r'\.(?![^\[]*\])', path) splits at.
SplitDots(path) == {i \in 1..Len(path) : CharAt(path, i) = "." /\ ~ClosesBracket(path, i)}

\* re.split(r'\.(?![^\[]*\])', path)
RECURSIVE SplitPathFrom(_, _)
SplitPathFrom(path, from) ==
  Only({ IF dots = {} THEN <<SubSeq(path, f, Len(path))>>
         ELSE LET d == CHOOSE i \in dots : \A j \in dots : i <= j
              IN <<SubSeq(path, f, d - 1)>> \o SplitPathFrom(path, d + 1)
         : f \in {from}, dots \in {{i \in SplitDots(path) : i >= from}} })

SplitPath(path) == SplitPathFrom(path, 1)

\* The length of the longest prefix of s from position i made of chars of C.
RunLen(s, i, C) ==
  LET stops == {k \in i..(Len(s) + 1) : CharAtOr(s, k) \notin C}
  IN (CHOOSE k \in stops : \A q \in stops : k <= q) - i

\* re.match(r'(\w+)\[(\*|\d+)\]', part): the groups (key, index) of a match.
MatchIndexed(part) ==
  LET w == RunLen(part, 1, WordChars)
      d == RunLen(part, w + 2, Digits)
  IN IF w = 0 \/ CharAtOr(part, w + 1) # "[" THEN [matched |-> FALSE]
     ELSE IF CharAtOr(part, w + 2) = "*" /\ CharAtOr(part, w + 3) = "]"
     THEN [matched |-> TRUE, key |-> SubSeq(part, 1, w), index |-> "*"]
     ELSE IF d > 0 /\ CharAtOr(part, w + 2 + d) = "]"
     THEN [matched |-> TRUE, key |-> SubSeq(part, 1, w),
           index |-> SubSeq(part, w + 2, w + 1 + d)]
     ELSE [matched |-> FALSE]

DigitValue(c) == CHOOSE n \in 0..9 : ToString(n) = c

\* int(s) of a string of digits
RECURSIVE ParseInt(_)
ParseInt(s) ==
  IF s = "" THEN 0
  ELSE 10 * ParseInt(SubSeq(s, 1, Len(s) - 1)) + DigitValue(CharAt(s, Len(s)))

\* int(index) raises ValueError on a string of more digits than the
\* interpreter converts (sys.get_int_max_str_digits(), 4300 unless changed).
IntMaxStrDigits == 4300

\* A resolver that goes on with the segments after a wildcard, from the
\* list the wildcard found.
RECURSIVE WalkPathPastWildcard(_, _)
WalkPathPastWildcard(current, parts) ==
  IF parts = <<>> THEN current
  ELSE IF IsNone(current) THEN None
  ELSE Only({
         IF match.matched
         THEN LET under == IF IsDict(current) THEN Get(current, match.key) ELSE None
              IN IF IsNone(under) THEN None
                 ELSE IF match.index = "*"
                 THEN (IF IsList(under) THEN WalkPathPastWildcard(under, Tail(parts))
                       ELSE None)
                 ELSE IF Len(match.index) > IntMaxStrDigits THEN Raise("ValueError")
                 ELSE IF IsList(under) /\ ParseInt(match.index) < Len(under.list)
                 THEN WalkPathPastWildcard(under.list[ParseInt(match.index) + 1],
                                           Tail(parts))
                 ELSE None
         ELSE IF IsDict(current) THEN WalkPathPastWildcard(Get(current, part), Tail(parts))
         ELSE None
         : part \in {Head(parts)}, match \in {MatchIndexed(Head(parts))} })

\* The loop `for part in parts` from the node current; the value is
\* Raise("ValueError") when int(index) raises.
RECURSIVE WalkPath(_, _)
WalkPath(current, parts) ==
  IF parts = <<>> THEN current
  ELSE IF IsNone(current) THEN None
  ELSE Only({
         IF match.matched
         THEN LET under == IF IsDict(current) THEN Get(current, match.key) ELSE None
              IN IF IsNone(under) THEN None
                 ELSE IF match.index = "*"
                 THEN (IF IsList(under) THEN under ELSE None)
                 ELSE IF Len(match.index) > IntMaxStrDigits THEN Raise("ValueError")
                 ELSE IF IsList(under) /\ ParseInt(match.index) < Len(under.list)
                 THEN WalkPath(under.list[ParseInt(match.index) + 1], Tail(parts))
                 ELSE None
         ELSE IF IsDict(current) THEN WalkPath(Get(current, part), Tail(parts))
         ELSE None
         : part \in {Head(parts)}, match \in {MatchIndexed(Head(parts))} })

get_nested_value(obj, path) ==
  IF path = "" \/ IsNone(obj) THEN None
  ELSE Only({ WalkPath(root, parts) : root \in {obj}, parts \in {SplitPath(path)} })

(***************************************************************************)
(* CustomExtractor records and the built-in presets.  content_paths is a   *)
(* sequence of path strings; usage_path, metadata_paths and event_filter   *)
(* are Python values (None, a str, a dict).                                *)
(***************************************************************************)
BuiltinOpenai ==
  [name |-> "openai",
   content_paths |-> <<"choices[0].delta.content",
                       "choices[0].delta.tool_calls[*].function.arguments">>,
   usage_path |-> JStr("usage"),
   metadata_paths |-> JObj([id |-> JStr("id"), model |-> JStr("model"),
                            created |-> JStr("created"), object |-> JStr("object"),
                            system_fingerprint |-> JStr("system_fingerprint")]),
   event_filter |-> None]

BuiltinAnthropic ==
  [name |-> "anthropic",
   content_paths |-> <<"delta.text">>,
   usage_path |-> JStr("usage"),
   metadata_paths |-> JObj([type |-> JStr("type"), index |-> JStr("index")]),
   event_filter |-> JObj([type |-> JStr("content_block_delta")])]

BuiltinGemini ==
  [name |-> "gemini",
   content_paths |-> <<"candidates[0].content.parts[0].text">>,
   usage_path |-> JStr("usageMetadata"),
   metadata_paths |-> JObj([model |-> JStr("modelVersion")]),
   event_filter |-> None]

\* A CustomExtractor instance as a value of the argument custom_extractor
ExtractorObject(x) == [extractor |-> x]

IsExtractorObject(v) == DOMAIN v = {"extractor"}

\* CustomExtractor.from_dict(data): the dict's entries, with the defaults of
\* data.get for the keys it lacks.
from_dict(data) ==
  [name |-> GetOr(data, "name", JStr("custom")).str,
   content_paths |-> LET paths == GetOr(data, "content_paths", EmptyList).list
                     IN [i \in 1..Len(paths) |-> paths[i].str],
   usage_path |-> Get(data, "usage_path"),
   metadata_paths |-> GetOr(data, "metadata_paths", EmptyDict),
   event_filter |-> Get(data, "event_filter")]

\* `custom_extractor` as parse_with_custom_extractor receives it: a dict has
\* been converted by from_dict.
Extractor(v) == IF IsDict(v) THEN from_dict(v) ELSE v.extractor

\* A test that takes every custom_extractor but None as supplied.
SuppliedUnlessNone(v) == ~IsNone(v)

\* `if custom_extractor`: an instance of CustomExtractor is true, a dict is
\* true when it is not empty, None is false.
Supplied(v) == IsExtractorObject(v) \/ Truthy(v)

(***************************************************************************)
(* parse_with_custom_extractor: the work on one chunk.                     *)
(***************************************************************************)
\* A filter that lets a chunk pass when one of the filter keys matches.
PassesFilterAnyKey(x, chunk) ==
  ~Truthy(x.event_filter)
  \/ \E key \in DOMAIN x.event_filter.obj : Get(chunk, key) = x.event_filter.obj[key]

\* Lines 308-315: the chunk passes the event filter.
PassesFilter(x, chunk) ==
  ~Truthy(x.event_filter)
  \/ \A key \in DOMAIN x.event_filter.obj : Get(chunk, key) = x.event_filter.obj[key]

\* The str of every item of a list that is not None, in list order.
RECURSIVE StrItems(_)
StrItems(vs) ==
  IF vs = <<>> THEN <<>>
  ELSE (IF IsNone(Head(vs)) THEN <<>> ELSE <<JStr(PyStr(Head(vs)))>>) \o StrItems(Tail(vs))

\* Lines 320-328: the fragments the content paths append, in path order.
RECURSIVE CustomFragments(_, _)
CustomFragments(paths, chunk) ==
  IF paths = <<>> THEN <<>>
  ELSE Only({ LET piece == IF IsNone(value) THEN <<>>
                           ELSE IF IsList(value) THEN StrItems(value.list)
                           ELSE <<JStr(PyStr(value))>>
              IN piece \o CustomFragments(rest, chunk)
              : value \in {get_nested_value(chunk, Head(paths))}, rest \in {Tail(paths)} })

\* Lines 335-342: the metadata captured from a chunk.
CustomMetadata(x, chunk) ==
  LET found == {k \in DOMAIN x.metadata_paths.obj :
                  ~IsNone(get_nested_value(chunk, x.metadata_paths.obj[k].str))}
  IN IF found = {} THEN None
     ELSE JObj([k \in found |-> get_nested_value(chunk, x.metadata_paths.obj[k].str)])

\* A Generic Extractor whose usage is overwritten by every chunk in which
\* the usage path resolves.
CustomChunkLastUsage(a, x, chunk) ==
  IF ~PassesFilter(x, chunk) THEN a
  ELSE [a EXCEPT !.chunk_count = @ + 1,
                 !.contents = @ \o CustomFragments(x.content_paths, chunk),
                 !.usage = IF Truthy(x.usage_path)
                              /\ ~IsNone(get_nested_value(chunk, x.usage_path.str))
                           THEN get_nested_value(chunk, x.usage_path.str) ELSE @,
                 !.metadata = IF IsNone(@) /\ Truthy(x.metadata_paths)
                              THEN CustomMetadata(x, chunk) ELSE @]

CustomChunk(a, x, chunk) ==
  IF ~PassesFilter(x, chunk) THEN a
  ELSE [a EXCEPT !.chunk_count = @ + 1,
                 !.contents = @ \o CustomFragments(x.content_paths, chunk),
                 !.usage = IF Truthy(x.usage_path) /\ IsNone(@)
                           THEN get_nested_value(chunk, x.usage_path.str) ELSE @,
                 !.metadata = IF IsNone(@) /\ Truthy(x.metadata_paths)
                              THEN CustomMetadata(x, chunk) ELSE @]

(***************************************************************************)
(* detect_format                                                           *)
(***************************************************************************)
\* raw_input[:5000]
SampleLen == 5000

\* A detector that tries the Gemini signature before the Anthropic ones.
detect_format_gemini_first(input) ==
  LET sample == SubSeq(input, 1, Min(SampleLen, Len(input)))
      has(p) == Contains(sample, p)
  IN IF has("\"candidates\"") /\ has("\"content\"") /\ has("\"parts\"") THEN "gemini"
     ELSE IF has("\"type\"") /\ has("\"content_block_delta\"") THEN "anthropic"
     ELSE IF has("\"type\"") /\ has("\"message_start\"") THEN "anthropic"
     ELSE IF has("\"event_type\"") /\ has("\"workflow_id\"") THEN "mas_response"
     ELSE IF has("\"node_id\"") /\ has("\"step\"") THEN "mas_response"
     ELSE IF has("\"op\"") /\ (has("\"append\"") \/ has("\"add\"")) /\ has("\"path\"")
          THEN "playground"
     ELSE "orchestrator"

detect_format(input) ==
  LET sample == SubSeq(input, 1, Min(SampleLen, Len(input)))
      has(p) == Contains(sample, p)
  IN IF has("\"type\"") /\ has("\"content_block_delta\"") THEN "anthropic"
     ELSE IF has("\"type\"") /\ has("\"message_start\"") THEN "anthropic"
     ELSE IF has("\"candidates\"") /\ has("\"content\"") /\ has("\"parts\"") THEN "gemini"
     ELSE IF has("\"event_type\"") /\ has("\"workflow_id\"") THEN "mas_response"
     ELSE IF has("\"node_id\"") /\ has("\"step\"") THEN "mas_response"
     ELSE IF has("\"op\"") /\ (has("\"append\"") \/ has("\"add\"")) /\ has("\"path\"")
          THEN "playground"
     ELSE IF has("\"choices\"") /\ has("\"delta\"") THEN "orchestrator"
     ELSE "orchestrator"

(***************************************************************************)
(* The state: the arguments of the running call, its local variables and   *)
(* its outcome.                                                            *)
(***************************************************************************)
VARIABLES
  op,               \* the function called
  raw_input,        \* argument raw_input
  format_type,      \* argument format_type (a StreamFormat value)
  custom_extractor, \* argument custom_extractor
  pc,               \* where the call is
  fmt,              \* the accumulator parse_sse_logs routed to
  detected,         \* local `detected` of parse_sse_logs
  lines, idx,       \* the lines of the input and the position of the running loop
  chunks,           \* what extract_sse_chunks has decoded
  contents, usage, metadata, errors, chunk_count,
  last_text,        \* parse_gemini_logs
  agents_seen,      \* parse_mas_response_logs: records in insertion order
  text,             \* argument of extract_json_from_text
  start_idx, pos, depth, in_string, escape_next, end_idx,
  json_data,        \* what extract_json_from_text returned
  result,           \* the value the call returned
  exc,              \* the exception that left the call ("" when none)
  obj, path,        \* arguments of get_nested_value called on its own
  peer              \* the frame of the other call, when two calls are in progress

\* The arguments of the running call and the frame of the other call: no
\* step of the program assigns to them.
argvars == <<op, raw_input, format_type, custom_extractor, obj, path, peer>>
accvars == <<contents, usage, metadata, chunk_count, last_text, agents_seen>>
scanvars == <<text, start_idx, pos, depth, in_string, escape_next, end_idx, json_data>>
vars == <<op, raw_input, format_type, custom_extractor, pc, fmt, detected, lines, idx,
          chunks,
          contents, usage, metadata, errors, chunk_count, last_text, agents_seen,
          text, start_idx, pos, depth, in_string, escape_next, end_idx, json_data,
          result, exc, obj, path, peer>>

NamedFormats == {"orchestrator", "anthropic", "gemini", "playground", "mas_response"}

(***************************************************************************)
(* The logs the calls are made on.  A log has at most MaxLines lines, all  *)
(* from one family of lines.  The framing family of a format mixes the     *)
(* lines the filter passes over and the lines that fail to decode with     *)
(* two chunks of the format; its chunk family holds well-formed chunks of  *)
(* the format; its odd family holds chunks with a field of an unexpected   *)
(* type next to well-formed ones.                                          *)
(***************************************************************************)
CommonLines == { "", "event: delta", "data: [DONE]", "data: {bad", "{\"a\":}" }

OrchFraming == CommonLines \cup { "data: " \o O1.text, "data:" \o O2.text }

OrchChunks == { "data: " \o O1.text, "data:" \o O2.text, O3.text, "data: " \o O4.text }

OrchOdd ==
  { "data: " \o O1.text, "data:" \o O2.text, "data: " \o HO1.text, "data: " \o HO2.text,
    "data: " \o HO3.text, "data: " \o HO4.text }

AnthFraming == CommonLines \cup { "data: " \o A2.text, "data:" \o A3.text }

AnthChunks ==
  { "data: " \o A1.text, "data: " \o A2.text, "data:" \o A3.text, A4.text,
    "data: " \o A5.text, "data: " \o A6.text }

AnthOdd ==
  { "data: " \o A2.text, A4.text, "data: " \o A7.text, "data: " \o HA1.text,
    "data: " \o HA2.text }

GemFraming == CommonLines \cup { "data: " \o G1.text, "data:" \o G3.text }

GemChunks ==
  { "data: " \o G1.text, "data: " \o G2.text, "data:" \o G3.text, G4.text,
    "data: " \o G5.text }

GemOdd == { "data: " \o G1.text, "data:" \o G3.text, "data: " \o HG1.text, "data: " \o HG2.text }

PlayFraming == CommonLines \cup { "data: " \o P1.text, "data:" \o P2.text }

PlayChunks ==
  { "data: " \o P1.text, "data: " \o P2.text, "data:" \o P3.text, P4.text,
    "data: " \o P5.text, "data: " \o P6.text }

PlayOdd == { "data: " \o P1.text, "data: " \o P2.text, "data: " \o P7.text, "data: " \o HP1.text }

MasFraming == CommonLines \cup { "data: " \o M2.text, "data:" \o M4.text }

MasChunks ==
  { "data: " \o M1.text, "data: " \o M2.text, "data:" \o M3.text, M4.text,
    "data: " \o M5.text }

MasOdd == { "data: " \o M2.text, "data: " \o M5.text, "data: " \o HM1.text, "data: " \o HM2.text }

Logs(family) == UNION { [1..n -> family] : n \in 0..MaxLines }

\* The calls of parse_sse_logs: each named format on the logs of its
\* families, and CUSTOM with a built-in preset on the chunks of the format
\* the preset is for.
Call(f, x, family) == [format_type |-> f, custom_extractor |-> x, lines |-> family]

Calls ==
  { Call("orchestrator", None, OrchFraming), Call("orchestrator", None, OrchChunks),
    Call("orchestrator", None, OrchOdd),
    Call("anthropic", None, AnthFraming), Call("anthropic", None, AnthChunks),
    Call("anthropic", None, AnthOdd),
    Call("gemini", None, GemFraming), Call("gemini", None, GemChunks),
    Call("gemini", None, GemOdd),
    Call("playground", None, PlayFraming), Call("playground", None, PlayChunks),
    Call("playground", None, PlayOdd),
    Call("mas_response", None, MasFraming), Call("mas_response", None, MasChunks),
    Call("mas_response", None, MasOdd),
    Call("custom", ExtractorObject(BuiltinOpenai), OrchChunks),
    Call("custom", ExtractorObject(BuiltinOpenai), OrchOdd),
    Call("custom", ExtractorObject(BuiltinAnthropic), AnthChunks) }

\* The local variables before a call has set them.
Idle ==
  /\ fmt = "" /\ detected = None /\ lines = <<>> /\ idx = 0 /\ chunks = <<>>
  /\ contents = <<>> /\ usage = None /\ metadata = None /\ errors = <<>>
  /\ chunk_count = 0 /\ last_text = "" /\ agents_seen = <<>>
  /\ start_idx = 0 /\ pos = 0 /\ depth = 0 /\ in_string = FALSE
  /\ escape_next = FALSE /\ end_idx = 0 /\ json_data = None
  /\ result = None /\ exc = ""

\* No call of get_nested_value on its own, and no other call in progress.
NoPath == obj = None /\ path = "" /\ peer = None

\* parse_sse_logs(raw_input, format_type) on a log of the format's lines
InitParse ==
  /\ op = "parse_sse_logs"
  /\ \E c \in Calls : \E ls \in Logs(c.lines) :
       /\ raw_input = JoinLines(ls)
       /\ format_type = c.format_type
       /\ custom_extractor = c.custom_extractor
  /\ text = ""
  /\ pc = "call"
  /\ Idle
  /\ NoPath

\* A parse_sse_logs that reports what detect_format found but hands every
\* AUTO request to the Orchestrator accumulator.
ParseCallAutoUnrouted ==
  /\ pc = "call" /\ op = "parse_sse_logs"
  /\ LET resolved == IF format_type = "auto" THEN detect_format(raw_input) ELSE format_type
         routed == IF format_type = "auto" THEN "orchestrator"
                   ELSE IF resolved \in {"playground", "mas_response", "anthropic", "gemini"}
                   THEN resolved
                   ELSE IF resolved = "custom" /\ Supplied(custom_extractor)
                   THEN "custom"
                   ELSE "orchestrator"
     IN /\ detected' = IF format_type = "auto" THEN JStr(resolved) ELSE None
        /\ fmt' = routed
        /\ pc' = IF routed = "custom" THEN "extract" ELSE "lines"
  /\ lines' = Only({SplitLines(Strip(raw_input))})
  /\ idx' = 1
  /\ contents' = <<>> /\ usage' = None /\ metadata' = None /\ errors' = <<>>
  /\ chunk_count' = 0 /\ last_text' = "" /\ agents_seen' = <<>>
  /\ chunks' = <<>>
  /\ UNCHANGED <<argvars, scanvars, result, exc>>

\* A parse_sse_logs whose accumulators are not locals of the call: the
\* prologue leaves contents, last_text and agents_seen as they are.
ParseCallKeepsAccumulators ==
  /\ pc = "call" /\ op = "parse_sse_logs"
  /\ LET resolved == IF format_type = "auto" THEN detect_format(raw_input) ELSE format_type
         routed == IF resolved \in {"playground", "mas_response", "anthropic", "gemini"}
                   THEN resolved
                   ELSE IF resolved = "custom" /\ Supplied(custom_extractor)
                   THEN "custom"
                   ELSE "orchestrator"
     IN /\ detected' = IF format_type = "auto" THEN JStr(resolved) ELSE None
        /\ fmt' = routed
        /\ pc' = IF routed = "custom" THEN "extract" ELSE "lines"
  /\ lines' = Only({SplitLines(Strip(raw_input))})
  /\ idx' = 1
  /\ usage' = None /\ metadata' = None /\ errors' = <<>>
  /\ chunk_count' = 0
  /\ chunks' = <<>>
  /\ UNCHANGED <<argvars, scanvars, result, exc, contents, last_text, agents_seen>>

(***************************************************************************)
(* parse_sse_logs: resolve AUTO, route, and the prologue of the routed     *)
(* accumulator (split the input, empty accumulators).                      *)
(***************************************************************************)
ParseCall ==
  /\ pc = "call" /\ op = "parse_sse_logs"
  /\ LET resolved == IF format_type = "auto" THEN detect_format(raw_input) ELSE format_type
         routed == IF resolved \in {"playground", "mas_response", "anthropic", "gemini"}
                   THEN resolved
                   ELSE IF resolved = "custom" /\ Supplied(custom_extractor)
                   THEN "custom"
                   ELSE "orchestrator"
     IN /\ detected' = IF format_type = "auto" THEN JStr(resolved) ELSE None
        /\ fmt' = routed
        /\ pc' = IF routed = "custom" THEN "extract" ELSE "lines"
  /\ lines' = Only({SplitLines(Strip(raw_input))})
  /\ idx' = 1
  /\ contents' = <<>> /\ usage' = None /\ metadata' = None /\ errors' = <<>>
  /\ chunk_count' = 0 /\ last_text' = "" /\ agents_seen' = <<>>
  /\ chunks' = <<>>
  /\ UNCHANGED <<argvars, scanvars, result, exc>>

Acc ==
  [contents |-> contents, usage |-> usage, metadata |-> metadata,
   chunk_count |-> chunk_count, last_text |-> last_text,
   agents_seen |-> agents_seen, exc |-> ""]

\* The try-block of the accumulator of format f on a decoded chunk.
FormatChunk(f, a, chunk) ==
  IF f = "orchestrator" THEN OrchChunk(a, chunk)
  ELSE IF f = "anthropic" THEN AnthChunk(a, chunk)
  ELSE IF f = "gemini" THEN GemChunk(a, chunk)
  ELSE IF f = "playground" THEN PlayChunk(a, chunk)
  ELSE MasChunk(a, chunk)

\* One iteration of `for line in lines` of the accumulator of format f.
NamedLine(f) ==
  /\ pc = "lines" /\ fmt = f /\ idx <= Len(lines)
  /\ \E p \in {LinePayload(MetaMessages(f), lines[idx])} :
        IF p.skip
        THEN /\ idx' = idx + 1
             /\ UNCHANGED <<accvars, errors, pc, exc>>
        ELSE \E d \in {json_loads(p.json_str)} :
                IF ~d.ok
                THEN /\ errors' = Append(errors, ParseErrorMessage(d.msg))
                     /\ idx' = idx + 1
                     /\ UNCHANGED <<accvars, pc, exc>>
                ELSE \E a \in {FormatChunk(f, Acc, d.value)} :
                        IF a.exc # ""
                        THEN /\ exc' = a.exc
                             /\ pc' = "raised"
                             /\ UNCHANGED <<accvars, errors, idx>>
                        ELSE /\ contents' = a.contents
                             /\ usage' = a.usage
                             /\ metadata' = a.metadata
                             /\ chunk_count' = a.chunk_count
                             /\ last_text' = a.last_text
                             /\ agents_seen' = a.agents_seen
                             /\ idx' = idx + 1
                             /\ UNCHANGED <<errors, pc, exc>>
  /\ UNCHANGED <<argvars, fmt, detected, lines, chunks, scanvars, result>>

OrchestratorLine == NamedLine("orchestrator")

AnthropicLine == NamedLine("anthropic")

GeminiLine == NamedLine("gemini")

PlaygroundLine == NamedLine("playground")

MasLine == NamedLine("mas_response")

\* One iteration of the loop of extract_sse_chunks.
ExtractSseChunksLine ==
  /\ pc = "extract" /\ idx <= Len(lines)
  /\ \E p \in {LinePayload(MetaMessagesChunks, lines[idx])} :
        chunks' = IF p.skip \/ ~json_loads(p.json_str).ok THEN chunks
                  ELSE Append(chunks, json_loads(p.json_str).value)
  /\ idx' = idx + 1
  /\ UNCHANGED <<argvars, pc, fmt, detected, lines, accvars, errors, scanvars, result, exc>>

\* extract_sse_chunks returns the chunks to parse_with_custom_extractor.
ExtractSseChunksReturn ==
  /\ pc = "extract" /\ idx > Len(lines)
  /\ pc' = "chunks"
  /\ idx' = 1
  /\ UNCHANGED <<argvars, fmt, detected, lines, chunks, accvars, errors, scanvars,
                 result, exc>>

\* One iteration of `for chunk in chunks` of parse_with_custom_extractor.
CustomChunkStep ==
  /\ pc = "chunks" /\ idx <= Len(chunks)
  /\ \E a \in {CustomChunk(Acc, Extractor(custom_extractor), chunks[idx])} :
        /\ contents' = a.contents
        /\ usage' = a.usage
        /\ metadata' = a.metadata
        /\ chunk_count' = a.chunk_count
  /\ idx' = idx + 1
  /\ UNCHANGED <<argvars, pc, fmt, detected, lines, chunks, errors, last_text,
                 agents_seen, scanvars, result, exc>>

\* After the loop: full_text = ''.join(contents), which raises TypeError on
\* an item that is not a str, then the call of extract_json_from_text.
LoopEnd ==
  /\ pc \in {"lines", "chunks"}
  /\ idx > Len(IF pc = "lines" THEN lines ELSE chunks)
  /\ IF \E i \in 1..Len(contents) : ~IsStr(contents[i])
     THEN /\ exc' = "TypeError"
          /\ pc' = "raised"
          /\ UNCHANGED <<text, metadata>>
     ELSE /\ text' = JoinStr(contents)
          /\ metadata' = IF fmt = "mas_response"
                         THEN MasAttachAgents(metadata, agents_seen) ELSE metadata
          /\ pc' = "scan_call"
          /\ UNCHANGED exc
  /\ UNCHANGED <<argvars, fmt, detected, lines, idx, chunks, contents, usage, errors,
                 chunk_count, last_text, agents_seen, start_idx, pos, depth,
                 in_string, escape_next, end_idx, json_data, result>>

(***************************************************************************)
(* extract_json_from_text                                                  *)
(***************************************************************************)
\* Lines 842-852: the early returns and the locals before the loop.
ExtractJsonCall ==
  /\ pc = "scan_call"
  /\ IF text = "" \/ Find(text, "{") = 0
     THEN /\ json_data' = None
          /\ pc' = "scan_ret"
          /\ UNCHANGED <<start_idx, pos, depth, in_string, escape_next, end_idx>>
     ELSE /\ start_idx' = Find(text, "{")
          /\ pos' = Find(text, "{")
          /\ depth' = 0
          /\ end_idx' = 0
          /\ in_string' = FALSE
          /\ escape_next' = FALSE
          /\ pc' = "scan"
          /\ UNCHANGED json_data
  /\ UNCHANGED <<argvars, fmt, detected, lines, idx, chunks, accvars, errors, text, result, exc>>

\* A loop body that counts the braces inside strings too.
ScanStepEveryBrace(s, char, i) ==
  IF s.escape_next THEN [s EXCEPT !.escape_next = FALSE]
  ELSE IF char = "\\" /\ s.in_string THEN [s EXCEPT !.escape_next = TRUE]
  ELSE IF char = "\"" THEN [s EXCEPT !.in_string = ~s.in_string]
  ELSE IF char = "{" THEN [s EXCEPT !.depth = s.depth + 1]
  ELSE IF char = "}"
  THEN [s EXCEPT !.depth = s.depth - 1,
                 !.end_idx = IF s.depth - 1 = 0 THEN i ELSE s.end_idx]
  ELSE s

\* A loop body that stops only when the depth falls below zero.
ScanStepStopsBelowZero(s, char, i) ==
  IF s.escape_next THEN [s EXCEPT !.escape_next = FALSE]
  ELSE IF char = "\\" /\ s.in_string THEN [s EXCEPT !.escape_next = TRUE]
  ELSE IF char = "\"" THEN [s EXCEPT !.in_string = ~s.in_string]
  ELSE IF s.in_string THEN s
  ELSE IF char = "{" THEN [s EXCEPT !.depth = s.depth + 1]
  ELSE IF char = "}"
  THEN [s EXCEPT !.depth = s.depth - 1,
                 !.end_idx = IF s.depth - 1 < 0 THEN i ELSE s.end_idx]
  ELSE s

\* The body of `for i, char in ...` on the locals s = [depth, in_string,
\* escape_next, end_idx] at position i; end_idx is 0 where the code holds -1.
ScanStep(s, char, i) ==
  IF s.escape_next THEN [s EXCEPT !.escape_next = FALSE]
  ELSE IF char = "\\" /\ s.in_string THEN [s EXCEPT !.escape_next = TRUE]
  ELSE IF char = "\"" THEN [s EXCEPT !.in_string = ~s.in_string]
  ELSE IF s.in_string THEN s
  ELSE IF char = "{" THEN [s EXCEPT !.depth = s.depth + 1]
  ELSE IF char = "}"
  THEN [s EXCEPT !.depth = s.depth - 1,
                 !.end_idx = IF s.depth - 1 = 0 THEN i ELSE s.end_idx]
  ELSE s

\* A scanning loop that does not move on to the next character.
ScanCharStaysPut ==
  /\ pc = "scan" /\ end_idx = 0 /\ pos <= Len(text)
  /\ LET s == ScanStep([depth |-> depth, in_string |-> in_string,
                        escape_next |-> escape_next, end_idx |-> end_idx],
                       CharAt(text, pos), pos)
     IN /\ depth' = s.depth
        /\ in_string' = s.in_string
        /\ escape_next' = s.escape_next
        /\ end_idx' = s.end_idx
        /\ pos' = pos
  /\ UNCHANGED <<argvars, pc, fmt, detected, lines, idx, chunks, accvars, errors, text,
                 start_idx, json_data, result, exc>>

\* One iteration of the scanning loop; positions are 1-based, and the loop
\* is left by `break` as soon as end_idx is set.
ScanChar ==
  /\ pc = "scan" /\ end_idx = 0 /\ pos <= Len(text)
  /\ LET s == ScanStep([depth |-> depth, in_string |-> in_string,
                        escape_next |-> escape_next, end_idx |-> end_idx],
                       CharAt(text, pos), pos)
     IN /\ depth' = s.depth
        /\ in_string' = s.in_string
        /\ escape_next' = s.escape_next
        /\ end_idx' = s.end_idx
        /\ pos' = IF s.end_idx # 0 THEN pos ELSE pos + 1
  /\ UNCHANGED <<argvars, pc, fmt, detected, lines, idx, chunks, accvars, errors, text,
                 start_idx, json_data, result, exc>>

\* An end of the scan that returns any JSON object the text holds.
ScanEndAnyObject ==
  /\ pc = "scan" /\ (end_idx # 0 \/ pos > Len(text))
  /\ json_data' = IF \E d \in JsonDocs : Contains(text, d.text)
                  THEN (CHOOSE d \in JsonDocs : Contains(text, d.text)).value
                  ELSE None
  /\ pc' = "scan_ret"
  /\ UNCHANGED <<argvars, fmt, detected, lines, idx, chunks, accvars, errors, text,
                 start_idx, pos, depth, in_string, escape_next, end_idx, result, exc>>

\* Lines 880-888: after the loop.
ScanEnd ==
  /\ pc = "scan" /\ (end_idx # 0 \/ pos > Len(text))
  /\ json_data' = IF end_idx = 0 THEN None
                  ELSE LET d == json_loads(SubSeq(text, start_idx, end_idx))
                       IN IF d.ok THEN d.value ELSE None
  /\ pc' = "scan_ret"
  /\ UNCHANGED <<argvars, fmt, detected, lines, idx, chunks, accvars, errors, text,
                 start_idx, pos, depth, in_string, escape_next, end_idx, result, exc>>

\* The ParseResult the accumulator builds, and parse_sse_logs storing
\* detected_format in it.
ParseReturn ==
  /\ pc = "scan_ret" /\ op = "parse_sse_logs"
  /\ result' = [raw_text |-> text, json_data |-> json_data,
                usage |-> IF fmt = "gemini" /\ ~Truthy(usage) THEN None ELSE usage,
                metadata |-> IF fmt = "gemini" /\ ~Truthy(metadata) THEN None ELSE metadata,
                chunk_count |-> chunk_count, errors |-> errors,
                detected_format |-> detected]
  /\ pc' = "done"
  /\ UNCHANGED <<argvars, fmt, detected, lines, idx, chunks, accvars, errors, scanvars, exc>>

Init == InitParse

Next ==
  \/ ParseCall
  \/ OrchestratorLine
  \/ AnthropicLine
  \/ GeminiLine
  \/ PlaygroundLine
  \/ MasLine
  \/ ExtractSseChunksLine
  \/ ExtractSseChunksReturn
  \/ CustomChunkStep
  \/ LoopEnd
  \/ ExtractJsonCall
  \/ ScanChar
  \/ ScanEnd
  \/ ParseReturn

Spec == Init /\ [][Next]_vars

(***************************************************************************)
(* extract_json_from_text called on its own, on every text of at most      *)
(* MaxTextLen characters over the characters the scanner tells apart.      *)
(***************************************************************************)
ScanAlphabet == { "{", "}", "\"", "\\" }

RECURSIVE Texts(_)
Texts(n) == IF n = 0 THEN { "" } ELSE { t \o c : t \in Texts(n - 1), c \in ScanAlphabet }

ScanTexts == UNION { Texts(n) : n \in 0..MaxTextLen }

InitScan ==
  /\ op = "extract_json_from_text"
  /\ text \in ScanTexts
  /\ raw_input = "" /\ format_type = "" /\ custom_extractor = None
  /\ pc = "scan_call"
  /\ Idle
  /\ NoPath

\* `return json.loads(json_str)` / `return None` to the caller
ExtractJsonReturn ==
  /\ pc = "scan_ret" /\ op = "extract_json_from_text"
  /\ result' = json_data
  /\ pc' = "done"
  /\ UNCHANGED <<argvars, fmt, detected, lines, idx, chunks, accvars, errors, scanvars, exc>>

NextScan ==
  \/ ExtractJsonCall
  \/ ScanChar
  \/ ScanEnd
  \/ ExtractJsonReturn

SpecScan == InitScan /\ [][NextScan]_vars

(***************************************************************************)
(* detect_format called on its own.  The inputs carry at most MaxTokens of *)
(* the quoted names the signature rules look for; the inputs longer than   *)
(* the sample carry one signature at the edge of the sample.               *)
(***************************************************************************)
Tokens ==
  << "\"type\"", "\"content_block_delta\"", "\"message_start\"", "\"candidates\"",
     "\"content\"", "\"parts\"", "\"event_type\"", "\"workflow_id\"", "\"node_id\"",
     "\"step\"", "\"op\"", "\"append\"", "\"add\"", "\"path\"", "\"choices\"",
     "\"delta\"" >>

\* The tokens numbered in S, in the order of Tokens, each followed by ":1,"
RECURSIVE TokenText(_, _)
TokenText(S, i) ==
  IF i > Len(Tokens) THEN ""
  ELSE (IF i \in S THEN Tokens[i] \o ":1," ELSE "") \o TokenText(S, i + 1)

RECURSIVE Spaces(_)
Spaces(n) ==
  IF n = 0 THEN ""
  ELSE LET h == Spaces(n \div 2) IN h \o h \o (IF n % 2 = 1 THEN " " ELSE "")

Signatures ==
  { {1, 2}, {1, 3}, {4, 5, 6}, {7, 8}, {9, 10}, {11, 12, 14}, {11, 13, 14}, {15, 16} }

\* A signature that ends exactly at the end of the sample, one that is cut
\* by it, and one that starts after it.
LongInputs ==
  { Spaces(SampleLen - Len(TokenText(S, 1)) + 3) \o TokenText(S, 1) : S \in Signatures }
  \cup { Spaces(SampleLen - Len(TokenText(S, 1)) + 4) \o TokenText(S, 1) : S \in Signatures }
  \cup { Spaces(SampleLen) \o TokenText(S, 1) : S \in Signatures }

DetectInputs ==
  { TokenText(S, 1) : S \in { T \in SUBSET (1..Len(Tokens)) : Cardinality(T) <= MaxTokens } }
  \cup LongInputs

InitDetect ==
  /\ op = "detect_format"
  /\ raw_input \in DetectInputs
  /\ format_type = "" /\ custom_extractor = None /\ text = ""
  /\ pc = "call"
  /\ Idle
  /\ NoPath

DetectFormatCall ==
  /\ pc = "call" /\ op = "detect_format"
  /\ result' = JStr(detect_format(raw_input))
  /\ pc' = "done"
  /\ UNCHANGED <<argvars, fmt, detected, lines, idx, chunks, accvars, errors, scanvars, exc>>

NextDetect == DetectFormatCall

SpecDetect == InitDetect /\ [][NextDetect]_vars

(***************************************************************************)
(* parse_sse_logs on logs that mix chunks of the five formats: with AUTO,  *)
(* with each named format, and with CUSTOM without an extractor, with an   *)
(* empty dict, with a dict of rules and with an instance; and CUSTOM with  *)
(* an event filter on chunks the filter tells apart.                       *)
(***************************************************************************)
MixedLines ==
  { "data: " \o O1.text, "data: " \o A2.text, "data:" \o G1.text, P1.text,
    "data: " \o M2.text }

\* Orchestrator chunks and a line that fails to decode, for the CUSTOM
\* requests
RoutingLines ==
  { "data: " \o O1.text, O3.text, "data: " \o O5.text, "data: {bad" }

FilterLines ==
  { "data: " \o A2.text, "data:" \o A3.text, A4.text, "data: " \o F1.text,
    "data: " \o F2.text }

\* A dict of rules that holds content_paths only
OpenaiRules ==
  JObj([name |-> JStr("mine"),
        content_paths |-> JList(<<JStr("choices[0].delta.content")>>)])

\* A dict of rules with an event filter of two keys
FilterRules ==
  JObj([content_paths |-> JList(<<JStr("delta.text")>>),
        usage_path |-> JStr("usage"),
        metadata_paths |-> JObj([index |-> JStr("index"), kind |-> JStr("delta.type")]),
        event_filter |-> JObj([type |-> JStr("content_block_delta"), index |-> JNum(0)])])

DispatchCalls ==
  { Call(f, None, MixedLines) : f \in NamedFormats \cup {"auto"} }
  \cup { Call("custom", x, RoutingLines) :
           x \in {None, EmptyDict, OpenaiRules, ExtractorObject(BuiltinOpenai)} }
  \cup { Call("auto", ExtractorObject(BuiltinOpenai), MixedLines),
         Call("custom", FilterRules, FilterLines),
         Call("custom", ExtractorObject(BuiltinAnthropic), FilterLines) }

InitDispatch ==
  /\ op = "parse_sse_logs"
  /\ \E c \in DispatchCalls : \E ls \in Logs(c.lines) :
       /\ raw_input = JoinLines(ls)
       /\ format_type = c.format_type
       /\ custom_extractor = c.custom_extractor
  /\ text = ""
  /\ pc = "call"
  /\ Idle
  /\ NoPath

SpecDispatch == InitDispatch /\ [][Next]_vars

(***************************************************************************)
(* get_nested_value called on its own: on the paths of at most MaxSegments *)
(* segments, on paths that are not of the grammar, and on a path whose     *)
(* index has one digit more than int() converts.                           *)
(***************************************************************************)
MaxSegments == 2

PathSegments == { "a", "b", "a[0]", "a[1]", "b[0]", "a[*]" }

RECURSIVE PathsOf(_)
PathsOf(n) ==
  IF n = 1 THEN PathSegments
  ELSE { p \o "." \o s : p \in PathsOf(n - 1), s \in PathSegments }

\* s repeated n times
RECURSIVE Repeat(_, _)
Repeat(s, n) ==
  IF n = 0 THEN ""
  ELSE IF n % 2 = 0 THEN LET half == Repeat(s, n \div 2) IN half \o half
  ELSE s \o Repeat(s, n - 1)

LongIndexPath == "a[" \o Repeat("9", IntMaxStrDigits + 1) \o "]"

OddPaths == { "", ".", "a..b", "a[0", "a[0]b", "a[01]", "[0]", "a.b]", "a[-1]", LongIndexPath }

PathTexts == UNION { PathsOf(n) : n \in 1..MaxSegments } \cup OddPaths

Tree ==
  JObj([a |-> JList(<<JObj([b |-> JNum(7), a |-> JList(<<JNum(1), JNum(2)>>)]),
                      JList(<<JNum(3)>>)>>),
        b |-> JObj([a |-> JList(<<JNum(4)>>), b |-> JObj([a |-> JNum(9)])])])

PathRoots ==
  { None, JNum(5), JStr("s"), JList(<<JNum(1)>>), Tree, JObj([a |-> None]),
    JObj([a |-> JStr("xyz")]), JObj([a |-> JList(<<None, JObj([a |-> JList(<<JNum(6)>>)])>>)]) }

InitPath ==
  /\ op = "get_nested_value"
  /\ obj \in PathRoots
  /\ path \in PathTexts
  /\ peer = None
  /\ raw_input = "" /\ format_type = "" /\ custom_extractor = None /\ text = ""
  /\ pc = "call"
  /\ Idle

\* get_nested_value(obj, path) returns its value, or is left by the
\* exception of int(index).
GetNestedValueCall ==
  /\ pc = "call" /\ op = "get_nested_value"
  /\ LET v == get_nested_value(obj, path)
     IN IF DOMAIN v = {"exc"}
        THEN /\ exc' = v.exc
             /\ pc' = "raised"
             /\ UNCHANGED result
        ELSE /\ result' = v
             /\ pc' = "done"
             /\ UNCHANGED exc
  /\ UNCHANGED <<argvars, fmt, detected, lines, idx, chunks, accvars, errors, scanvars>>

NextPath == GetNestedValueCall

SpecPath == InitPath /\ [][NextPath]_vars

(***************************************************************************)
(* Two calls of parse_sse_logs in progress at once, and a call made after  *)
(* both have finished.  Each call has its frame: the running call's is the *)
(* variables, the other call's is `peer`; the interpreter switches between *)
(* the two at any step.  The program has no variable outside the frames:   *)
(* the accumulators are locals that the prologue of each accumulator       *)
(* assigns (lines 561-567, 726-734).  The later call starts with the       *)
(* variables as the finished call left them.                               *)
(***************************************************************************)
MaxPairLines == 1

GeminiPair == { "data: " \o G1.text, "data: " \o G2.text }

MasPair == { "data: " \o M2.text, "data: " \o M4.text }

PairCalls == { Call("gemini", None, GeminiPair), Call("mas_response", None, MasPair) }

PairLogs(family) == UNION { [1..n -> family] : n \in 0..MaxPairLines }

\* The frame of the running call
Frame ==
  [op |-> op, raw_input |-> raw_input, format_type |-> format_type,
   custom_extractor |-> custom_extractor, obj |-> obj, path |-> path,
   pc |-> pc, fmt |-> fmt, detected |-> detected, lines |-> lines,
   idx |-> idx, chunks |-> chunks, contents |-> contents, usage |-> usage,
   metadata |-> metadata, errors |-> errors, chunk_count |-> chunk_count,
   last_text |-> last_text, agents_seen |-> agents_seen, text |-> text,
   start_idx |-> start_idx, pos |-> pos, depth |-> depth,
   in_string |-> in_string, escape_next |-> escape_next,
   end_idx |-> end_idx, json_data |-> json_data, result |-> result,
   exc |-> exc]

\* The frame of a call of parse_sse_logs(raw, f) that has not started
NewFrame(raw, f) ==
  [op |-> "parse_sse_logs", raw_input |-> raw, format_type |-> f,
   custom_extractor |-> None, obj |-> None, path |-> "", pc |-> "call",
   fmt |-> "", detected |-> None, lines |-> <<>>, idx |-> 0,
   chunks |-> <<>>, contents |-> <<>>, usage |-> None, metadata |-> None,
   errors |-> <<>>, chunk_count |-> 0, last_text |-> "",
   agents_seen |-> <<>>, text |-> "", start_idx |-> 0, pos |-> 0,
   depth |-> 0, in_string |-> FALSE, escape_next |-> FALSE, end_idx |-> 0,
   json_data |-> None, result |-> None, exc |-> ""]

InitPair ==
  /\ op = "parse_sse_logs"
  /\ \E c \in PairCalls : \E ls \in PairLogs(c.lines) :
       /\ raw_input = JoinLines(ls)
       /\ format_type = c.format_type
       /\ custom_extractor = c.custom_extractor
  /\ \E c \in PairCalls : \E ls \in PairLogs(c.lines) :
       peer = NewFrame(JoinLines(ls), c.format_type)
  /\ obj = None /\ path = ""
  /\ text = ""
  /\ pc = "call"
  /\ Idle

\* The interpreter leaves the running call where it is and carries on with
\* the other one.
Switch ==
  /\ ~IsNone(peer) /\ peer.pc # "returned"
  /\ op' = peer.op
  /\ raw_input' = peer.raw_input
  /\ format_type' = peer.format_type
  /\ custom_extractor' = peer.custom_extractor
  /\ obj' = peer.obj
  /\ path' = peer.path
  /\ pc' = peer.pc
  /\ fmt' = peer.fmt
  /\ detected' = peer.detected
  /\ lines' = peer.lines
  /\ idx' = peer.idx
  /\ chunks' = peer.chunks
  /\ contents' = peer.contents
  /\ usage' = peer.usage
  /\ metadata' = peer.metadata
  /\ errors' = peer.errors
  /\ chunk_count' = peer.chunk_count
  /\ last_text' = peer.last_text
  /\ agents_seen' = peer.agents_seen
  /\ text' = peer.text
  /\ start_idx' = peer.start_idx
  /\ pos' = peer.pos
  /\ depth' = peer.depth
  /\ in_string' = peer.in_string
  /\ escape_next' = peer.escape_next
  /\ end_idx' = peer.end_idx
  /\ json_data' = peer.json_data
  /\ result' = peer.result
  /\ exc' = peer.exc
  /\ peer' = Frame

\* Both calls have finished; the other one's result stays with its caller,
\* and a further call is made.  Its locals hold what the finished call left
\* until the call assigns them.
CallAgain ==
  /\ pc \in {"done", "raised"} /\ op = "parse_sse_logs"
  /\ ~IsNone(peer) /\ peer.pc \in {"done", "raised"}
  /\ \E c \in PairCalls : \E ls \in PairLogs(c.lines) :
       /\ raw_input' = JoinLines(ls)
       /\ format_type' = c.format_type
       /\ custom_extractor' = c.custom_extractor
  /\ pc' = "call"
  /\ result' = None /\ exc' = ""
  /\ peer' = [peer EXCEPT !.pc = "returned"]
  /\ UNCHANGED <<op, obj, path, fmt, detected, lines, idx, chunks, accvars, errors, scanvars>>

NextPair ==
  \/ ParseCall
  \/ GeminiLine
  \/ MasLine
  \/ LoopEnd
  \/ ExtractJsonCall
  \/ ScanChar
  \/ ScanEnd
  \/ ParseReturn
  \/ Switch
  \/ CallAgain

SpecPair == InitPair /\ [][NextPair]_vars

(***************************************************************************)
(* parse_sse_logs run to its end.  A call is one thread of control that    *)
(* nothing suspends: whenever it has a next step it takes it, which is     *)
(* weak fairness of Next.  The Orchestrator calls are on chunks whose text *)
(* closes a brace before its end, or never closes it.                      *)
(***************************************************************************)
OrchLive == { "data:" \o O2.text, "data: " \o O6.text, "data: {bad" }

\* For each other format: a chunk of the format, a chunk of another format
\* and a line that fails to decode.
OwnLive ==
  [anthropic |-> "data: " \o A2.text, gemini |-> "data:" \o G1.text,
   playground |-> P1.text, mas_response |-> "data: " \o M2.text]

LiveCalls ==
  { Call("orchestrator", None, OrchLive),
    Call("custom", ExtractorObject(BuiltinOpenai),
         {"data: " \o O1.text, "data: " \o O6.text}) }
  \cup { Call(f, None, {OwnLive[f], "data: " \o O1.text, "data: {bad"}) :
           f \in NamedFormats \ {"orchestrator"} }

InitLive ==
  /\ op = "parse_sse_logs"
  /\ \E c \in LiveCalls : \E ls \in Logs(c.lines) :
       /\ raw_input = JoinLines(ls)
       /\ format_type = c.format_type
       /\ custom_extractor = c.custom_extractor
  /\ text = ""
  /\ pc = "call"
  /\ Idle
  /\ NoPath

SpecLive == InitLive /\ [][Next]_vars /\ WF_vars(Next)

(***************************************************************************)
(* The usage bookkeeping of the Orchestrator and Anthropic accumulators:   *)
(* logs of chunks with and without usage objects, with and without token   *)
(* counters, with counters of 0, and chunks of every event type, of an     *)
(* unknown type and of no type.                                            *)
(***************************************************************************)
OrchUsageLines ==
  { "data: " \o O1.text, O3.text, "data: " \o O4.text, "data: " \o O5.text, "data: {bad" }

AnthTokenLines ==
  { "data: " \o A1.text, A4.text, "data: " \o A7.text, "data: " \o A8.text,
    "data: " \o A9.text, "data: " \o A10.text }

AnthTypeLines ==
  { "data: " \o A1.text, "data: " \o A2.text, "data:" \o A3.text, "data: " \o A5.text,
    "data: " \o A6.text, "data: " \o A11.text, "data: " \o A12.text,
    "data: " \o A13.text, "data: " \o A14.text }

UsageCalls ==
  { Call("orchestrator", None, OrchUsageLines), Call("anthropic", None, AnthTokenLines),
    Call("anthropic", None, AnthTypeLines) }

InitUsage ==
  /\ op = "parse_sse_logs"
  /\ \E c \in UsageCalls : \E ls \in Logs(c.lines) :
       /\ raw_input = JoinLines(ls)
       /\ format_type = c.format_type
       /\ custom_extractor = c.custom_extractor
  /\ text = ""
  /\ pc = "call"
  /\ Idle
  /\ NoPath

NextUsage ==
  \/ ParseCall
  \/ OrchestratorLine
  \/ AnthropicLine
  \/ LoopEnd
  \/ ExtractJsonCall
  \/ ScanChar
  \/ ScanEnd
  \/ ParseReturn

SpecUsage == InitUsage /\ [][NextUsage]_vars

(***************************************************************************)
(* The cases of the Gemini and Playground accumulators and of the usage    *)
(* capture of the Generic Extractor: Gemini chunks with several parts,     *)
(* several candidates and finish reasons, with and without a model         *)
(* version; Playground chunks of every op, path and value case; and        *)
(* OpenAI-style chunks whose usage is absent, null, empty or a dict.       *)
(***************************************************************************)
GemCases ==
  { "data: " \o G1.text, "data:" \o G3.text, G4.text, "data: " \o G6.text,
    "data: " \o G7.text }

PlayCases ==
  { "data: " \o P1.text, "data: " \o P2.text, "data:" \o P3.text, P5.text,
    "data: " \o P6.text, "data: " \o P7.text, "data: " \o P8.text, "data: " \o P9.text }

UsageCases ==
  { "data: " \o O1.text, O3.text, "data: " \o O4.text, "data: " \o O5.text,
    "data: " \o O7.text }

CaseCalls ==
  { Call("gemini", None, GemCases), Call("playground", None, PlayCases),
    Call("custom", ExtractorObject(BuiltinOpenai), UsageCases) }

InitCases ==
  /\ op = "parse_sse_logs"
  /\ \E c \in CaseCalls : \E ls \in Logs(c.lines) :
       /\ raw_input = JoinLines(ls)
       /\ format_type = c.format_type
       /\ custom_extractor = c.custom_extractor
  /\ text = ""
  /\ pc = "call"
  /\ Idle
  /\ NoPath

NextCases ==
  \/ ParseCall
  \/ GeminiLine
  \/ PlaygroundLine
  \/ ExtractSseChunksLine
  \/ ExtractSseChunksReturn
  \/ CustomChunkStep
  \/ LoopEnd
  \/ ExtractJsonCall
  \/ ScanChar
  \/ ScanEnd
  \/ ParseReturn

SpecCases == InitCases /\ [][NextCases]_vars

(***************************************************************************)
(* Sentinel lines.  Each named format is called on logs of sentinel lines  *)
(* (the four tokens, bare, after "data:" and after "data: "), two chunks   *)
(* of the format and a line that fails to decode; when the call has        *)
(* returned, parse_sse_logs is called again on the same log without its    *)
(* sentinel lines, and the first result is kept in `peer`.                 *)
(***************************************************************************)
MaxSentinelLines == 2

SentinelTokens == { "[DONE]", "start", "end", "reserved" }

Sentinels == { p \o t : p \in { "", "data:", "data: " }, t \in SentinelTokens }

SentinelChunks ==
  [orchestrator |-> { "data:" \o O2.text, "data: " \o O5.text },
   anthropic |-> { "data: " \o A1.text, "data: " \o A2.text },
   gemini |-> { "data: " \o G1.text, "data: " \o G2.text },
   playground |-> { "data: " \o P1.text, "data: " \o P2.text },
   mas_response |-> { "data: " \o M2.text, "data: " \o M4.text }]

SentinelLogs(f) ==
  UNION { [1..n -> Sentinels \cup SentinelChunks[f] \cup { "data: {bad" }] :
            n \in 0..MaxSentinelLines }

InitSentinel ==
  /\ op = "parse_sse_logs"
  /\ \E f \in NamedFormats : \E ls \in SentinelLogs(f) :
       /\ raw_input = JoinLines(ls)
       /\ format_type = f
  /\ custom_extractor = None
  /\ text = ""
  /\ pc = "call"
  /\ Idle
  /\ NoPath

IsSentinel(line) == line \in Sentinels

NotSentinel(line) == line \notin Sentinels

\* The call has returned; its result stays with the caller, and a further
\* call is made on the log without its sentinel lines.  The locals hold what
\* the finished call left until the call assigns them.
CallWithoutSentinels ==
  /\ pc = "done" /\ op = "parse_sse_logs" /\ IsNone(peer)
  /\ \E i \in 1..Len(lines) : IsSentinel(lines[i])
  /\ peer' = Frame
  /\ raw_input' = JoinLines(SelectSeq(lines, NotSentinel))
  /\ pc' = "call"
  /\ result' = None /\ exc' = ""
  /\ UNCHANGED <<op, format_type, custom_extractor, obj, path, fmt, detected, lines, idx,
                 chunks, accvars, errors, scanvars>>

NextSentinel ==
  \/ ParseCall
  \/ OrchestratorLine
  \/ AnthropicLine
  \/ GeminiLine
  \/ PlaygroundLine
  \/ MasLine
  \/ LoopEnd
  \/ ExtractJsonCall
  \/ ScanChar
  \/ ScanEnd
  \/ ParseReturn
  \/ CallWithoutSentinels

SpecSentinel == InitSentinel /\ [][NextSentinel]_vars

(***************************************************************************)
(* The properties checked of the model.  What a property expects of a      *)
(* result is computed here from the input alone, by definitions that do    *)
(* not use the accumulators above.                                         *)
(***************************************************************************)
\* parse_sse_logs has returned its ParseResult
Returned == op = "parse_sse_logs" /\ pc = "done"

\* v[k] where v is a dict that has k, None otherwise
Field(v, k) == IF IsDict(v) /\ k \in DOMAIN v.obj THEN v.obj[k] ELSE None

\* the items of v where v is a list, none otherwise
Items(v) == IF IsList(v) THEN v.list ELSE <<>>

First(s) == IF s = <<>> THEN None ELSE s[1]

NotNone(v) == ~IsNone(v)

NonNull(s) == SelectSeq(s, NotNone)

RECURSIVE Flatten(_)
Flatten(ss) == IF ss = <<>> THEN <<>> ELSE Head(ss) \o Flatten(Tail(ss))

RECURSIVE ConcatStr(_)
ConcatStr(frags) == IF frags = <<>> THEN "" ELSE Head(frags).str \o ConcatStr(Tail(frags))

RECURSIVE SumLen(_)
SumLen(frags) == IF frags = <<>> THEN 0 ELSE Len(Head(frags).str) + SumLen(Tail(frags))

\* The text of a line after its optional "data:" prefix
PayloadOf(line) ==
  LET l == Strip(line)
  IN IF StartsWith(l, "data:") THEN Strip(SubSeq(l, 6, Len(l))) ELSE l

\* The line is not blank, is no event: line, and its payload starts with {
OffersObject(line) ==
  /\ Strip(line) # ""
  /\ ~StartsWith(Strip(line), "event:")
  /\ StartsWith(PayloadOf(line), "{")

\* The payload of the line is one of the texts that are not well-formed JSON
InvalidJson(line) == OffersObject(line) /\ PayloadOf(line) \in { b.text : b \in BadDocs }

\* The line decodes to a JSON object
DecodesToObject(line) == OffersObject(line) /\ \E d \in JsonDocs : d.text = PayloadOf(line)

ObjectOf(line) == (CHOOSE d \in JsonDocs : d.text = PayloadOf(line)).value

\* The format admits the chunk into its domain logic: Anthropic counts the
\* event types it recognises, MAS passes over connection events, the
\* Generic Extractor counts the chunks its event filter accepts.
AnthropicEventTypes ==
  { JStr("message_start"), JStr("content_block_delta"), JStr("message_delta"),
    JStr("content_block_start"), JStr("content_block_stop"), JStr("message_stop") }

Admitted(f, x, chunk) ==
  IF f = "anthropic" THEN Field(chunk, "type") \in AnthropicEventTypes
  ELSE IF f = "mas_response" THEN Field(chunk, "status") # JStr("connected")
  ELSE IF f = "custom"
  THEN IsNone(x.extractor.event_filter)
       \/ \A k \in DOMAIN x.extractor.event_filter.obj :
            Field(chunk, k) = x.extractor.event_filter.obj[k]
  ELSE TRUE

\* The chunks of the log ls that format f admits, in line order
AdmittedChunks(f, x, ls) ==
  LET ok(line) == DecodesToObject(line) /\ Admitted(f, x, ObjectOf(line))
      kept == SelectSeq(ls, ok)
  IN [i \in 1..Len(kept) |-> ObjectOf(kept[i])]

\* Orchestrator: delta.content, then the arguments of the tool calls in
\* list order
OrchestratorParts(chunk) ==
  LET delta == Field(First(Items(Field(chunk, "choices"))), "delta")
      tcs == Items(Field(delta, "tool_calls"))
  IN NonNull(<<Field(delta, "content")>>
             \o [i \in 1..Len(tcs) |-> Field(Field(tcs[i], "function"), "arguments")])

\* Anthropic: the text of a text_delta, the partial_json of an
\* input_json_delta
AnthropicParts(chunk) ==
  LET delta == Field(chunk, "delta")
  IN IF Field(chunk, "type") # JStr("content_block_delta") THEN <<>>
     ELSE IF Field(delta, "type") = JStr("text_delta") THEN NonNull(<<Field(delta, "text")>>)
     ELSE IF Field(delta, "type") = JStr("input_json_delta")
     THEN NonNull(<<Field(delta, "partial_json")>>)
     ELSE <<>>

\* Playground: the content of an added object, or the value added or
\* appended at a path that ends with /content
PlaygroundParts(chunk) ==
  LET value == Field(chunk, "value")
      where == Field(chunk, "path")
      atContent == IsStr(where) /\ EndsWith(where.str, "/content")
      strs(s) == [i \in 1..Len(s) |-> JStr(PyStr(s[i]))]
  IN IF Field(chunk, "op") = JStr("add") /\ IsDict(value) /\ HasKey(value, "content")
     THEN strs(NonNull(<<value.obj["content"]>>))
     ELSE IF Field(chunk, "op") \in {JStr("add"), JStr("append")} /\ atContent
     THEN strs(NonNull(<<value>>))
     ELSE <<>>

\* MAS: the items of the content list of a stream event in list order, a
\* text item by its text and a tool_use item by the JSON of its input
MasParts(chunk) ==
  LET items == Items(Field(chunk, "content"))
      piece(item) ==
        IF Field(item, "type") = JStr("text") THEN Field(item, "text")
        ELSE IF Field(item, "type") = JStr("tool_use") /\ Truthy(Field(item, "input"))
        THEN JStr(JsonDumps(Field(item, "input")))
        ELSE None
  IN IF Field(chunk, "event_type") # JStr("stream") THEN <<>>
     ELSE NonNull([i \in 1..Len(items) |-> piece(items[i])])

\* Generic Extractor: per content path in path order, the string form of
\* the resolved value, item by item when it is a list
GenericParts(x, chunk) ==
  LET paths == x.extractor.content_paths
      strs(s) == [i \in 1..Len(s) |-> JStr(PyStr(s[i]))]
      of(p) == LET v == get_nested_value(chunk, p)
                  IN IF IsList(v) THEN strs(NonNull(v.list)) ELSE strs(NonNull(<<v>>))
  IN Flatten([i \in 1..Len(paths) |-> of(paths[i])])

\* Gemini: the texts of the parts of the first candidate, in part order
GeminiTexts(chunk) ==
  LET parts == Items(Field(Field(First(Items(Field(chunk, "candidates"))), "content"),
                           "parts"))
  IN NonNull([i \in 1..Len(parts) |-> Field(parts[i], "text")])

\* Text i carries on the text before it
Extends(texts, i) == i > 1 /\ StartsWith(texts[i].str, texts[i - 1].str)

\* Gemini: of each text, what it adds to the text before it when it
\* carries on from it, and the whole text otherwise
GeminiParts(texts) ==
  LET added(i) == IF Extends(texts, i)
                  THEN SubSeq(texts[i].str, Len(texts[i - 1].str) + 1, Len(texts[i].str))
                  ELSE texts[i].str
      new(i) == added(i) # ""
      kept == SelectSeq([i \in 1..Len(texts) |-> i], new)
  IN [j \in 1..Len(kept) |-> JStr(added(kept[j]))]

\* The content fragments format f accepts from the chunks cs, in order
Fragments(f, x, cs) ==
  IF f = "gemini" THEN GeminiParts(Flatten([i \in 1..Len(cs) |-> GeminiTexts(cs[i])]))
  ELSE Flatten([i \in 1..Len(cs) |->
                  IF f = "orchestrator" THEN OrchestratorParts(cs[i])
                  ELSE IF f = "anthropic" THEN AnthropicParts(cs[i])
                  ELSE IF f = "playground" THEN PlaygroundParts(cs[i])
                  ELSE IF f = "mas_response" THEN MasParts(cs[i])
                  ELSE GenericParts(x, cs[i])])

\* The fragments expected of the running call
ExpectedFragments ==
  Fragments(format_type, custom_extractor,
            AdmittedChunks(format_type, custom_extractor, lines))

\* C1: when parse_sse_logs returns, in each of the five named formats and
\* in the Generic Extractor, raw_text is the concatenation without
\* separator of the accepted content fragments, in line order and within a
\* chunk in part order (Orchestrator: delta.content before the tool-call
\* arguments in list order; MAS: content items in list order), and its
\* length is the sum of the fragment lengths.
C1_RawTextIsOrderedConcatenation ==
  Returned =>
    /\ result.raw_text = ConcatStr(ExpectedFragments)
    /\ Len(result.raw_text) = SumLen(ExpectedFragments)

\* An Orchestrator log whose first chunk carries content and two tool-call
\* arguments and whose second chunk carries content
C1_Witness ==
  /\ Returned /\ format_type = "orchestrator"
  /\ lines = <<"data:" \o O2.text, "data: " \o O1.text>>
  /\ result.raw_text = "lo{\"a\":1}Hel"

\* C2: parse_sse_logs never leaves by an exception, whatever the types of
\* the fields of the decoded chunks.
C2_NeverRaises == ~(op = "parse_sse_logs" /\ pc = "raised")

\* A mapping that is neither empty nor holds a null the chunks did not hold
Provided(m, cs) ==
  \/ IsNone(m)
  \/ /\ Truthy(m)
     /\ IsDict(m) =>
          \A k \in DOMAIN m.obj :
            IsNone(m.obj[k]) => \E i \in 1..Len(cs) : HasKey(cs[i], k) /\ IsNone(cs[i].obj[k])

\* C3: in every format, the usage and the metadata of the result are None
\* unless a chunk carried a value for them: neither is an empty mapping and
\* neither holds a null-filled key; a call that admits no chunk returns
\* raw_text "", chunk_count 0 and usage, metadata and json_data None.
C3_NothingSynthesized ==
  Returned =>
    LET cs == AdmittedChunks(format_type, custom_extractor, lines)
    IN /\ Provided(result.usage, cs)
       /\ Provided(result.metadata, cs)
       /\ cs = <<>> =>
            /\ result.raw_text = "" /\ result.chunk_count = 0
            /\ IsNone(result.usage) /\ IsNone(result.metadata) /\ IsNone(result.json_data)

\* C4: in every format, chunk_count is the number of lines the format
\* admits; blank lines, event: lines, sentinels, payloads that do not start
\* with { and payloads that fail to decode are not counted, so chunk_count
\* is at most the number of lines that decode to a JSON object.
C4_ChunkCountCountsAdmittedLines ==
  Returned =>
    /\ result.chunk_count = Len(AdmittedChunks(format_type, custom_extractor, lines))
    /\ result.chunk_count <= Len(SelectSeq(lines, DecodesToObject))

\* One chunk counted in a log that also holds an event: line and a line
\* that fails to decode
C4_Witness ==
  /\ Returned /\ result.chunk_count = 1 /\ Len(lines) = 3
  /\ \E i \in 1..Len(lines) : lines[i] = "event: delta"
  /\ \E i \in 1..Len(lines) : lines[i] = "data: {bad"

\* The log holds one line of invalid JSON and two chunks the format admits
OneInvalidAmongTwoValid ==
  /\ format_type \in NamedFormats
  /\ Len(lines) = 3
  /\ \E i \in 1..3 :
       /\ InvalidJson(lines[i])
       /\ \A j \in (1..3) \ {i} :
            DecodesToObject(lines[j]) /\ Admitted(format_type, None, ObjectOf(lines[j]))

\* C5: in each named format, a log of one line of invalid JSON and two
\* valid chunks gives exactly one entry in errors, chunk_count 2 and the
\* raw_text of the two valid chunks: the lines after the invalid one are
\* still processed.
C5_MalformedLineResilience ==
  (Returned /\ OneInvalidAmongTwoValid) =>
    /\ Len(result.errors) = 1
    /\ result.chunk_count = 2
    /\ result.raw_text =
         ConcatStr(Fragments(format_type, None,
                             [i \in 1..2 |-> ObjectOf(SelectSeq(lines, DecodesToObject)[i])]))

\* A Gemini log with the invalid line between the two chunks
C5_Witness ==
  /\ Returned /\ OneInvalidAmongTwoValid /\ format_type = "gemini"
  /\ InvalidJson(lines[2])
  /\ result.raw_text = "Hello world!"

\* The message of the decoder on the payload of a line that fails to decode
DecoderMessage(line) == (CHOOSE b \in BadDocs : b.text = PayloadOf(line)).msg

\* The lines of the log that fail to decode, in line order
FailingLines == SelectSeq(lines, InvalidJson)

\* The errors of a named format follow the failing lines, in their order;
\* the Generic Extractor reports none.
ErrorsFollowFailingLines ==
  IF format_type = "custom" THEN result.errors = <<>>
  ELSE /\ Len(result.errors) = Len(FailingLines)
       /\ \A i \in 1..Len(FailingLines) :
            LET msg == DecoderMessage(FailingLines[i])
            IN result.errors[i] =
                 "JSON parse error: "
                 \o (IF Len(msg) <= ErrorSliceLen THEN msg ELSE SubSeq(msg, 1, ErrorSliceLen))

\* C6 as stated: every entry of errors has at most 50 characters, and the
\* entries are in the order of the failing lines.
C6_EntriesAtMostFiftyChars ==
  Returned =>
    /\ \A i \in 1..Len(result.errors) : Len(result.errors[i]) <= ErrorSliceLen
    /\ ErrorsFollowFailingLines

\* C6 amended: every entry of errors is "JSON parse error: " followed by
\* the first 50 characters of the decoder's message, so it has at most 50
\* characters more than that prefix, and the entries are in the order of
\* the failing lines.
C6_EntriesArePrefixedSlices ==
  Returned =>
    /\ \A i \in 1..Len(result.errors) :
         /\ StartsWith(result.errors[i], "JSON parse error: ")
         /\ Len(result.errors[i]) <= Len("JSON parse error: ") + ErrorSliceLen
    /\ ErrorsFollowFailingLines

\* Two failing lines with different messages, the first longer than the
\* slice
C6_Witness ==
  /\ Returned
  /\ Len(result.errors) = 2
  /\ Len(result.errors[1]) = Len("JSON parse error: ") + ErrorSliceLen
  /\ Len(result.errors[2]) < Len(result.errors[1])

AllGeminiTexts ==
  Flatten([i \in 1..Len(AdmittedChunks("gemini", None, lines)) |->
             GeminiTexts(AdmittedChunks("gemini", None, lines)[i])])

\* C8: Gemini cumulative diffing.  When every text carries on the text
\* before it, raw_text is the last text.  In general a text that does not
\* carry on the text before it is appended whole and is what the next text
\* is compared with: raw_text is the concatenation of the last text of
\* every run of texts that carry on one another.
C8_GeminiCumulativeDiffing ==
  (Returned /\ format_type = "gemini") =>
    LET texts == AllGeminiTexts
        n == Len(texts)
        endsRun(i) == i = n \/ ~Extends(texts, i + 1)
        ends == SelectSeq([i \in 1..n |-> i], endsRun)
    IN /\ (n > 0 /\ \A i \in 2..n : Extends(texts, i)) => result.raw_text = texts[n].str
       /\ result.raw_text = ConcatStr([j \in 1..Len(ends) |-> texts[ends[j]]])
       /\ n > 0 => last_text = texts[n].str

\* Two texts that carry on, then a chunk whose first text starts anew and
\* whose second carries on the first
C8_Witness ==
  /\ Returned /\ format_type = "gemini"
  /\ lines = <<"data: " \o G1.text, "data:" \o G3.text, G4.text>>
  /\ result.raw_text = "Hello world!Bye now"

\* extract_json_from_text has finished its scan
Scanned == op = "extract_json_from_text" /\ pc \in {"scan_ret", "done"}

\* Where the scanner is before character i of t, having started at s:
\* outside a string, in a string, or in a string after a backslash
RECURSIVE ModeBefore(_, _, _)
ModeBefore(t, s, i) ==
  IF i = s THEN "outside"
  ELSE Only({ IF m = "escaped" THEN "string"
              ELSE IF m = "string"
              THEN (IF c = "\\" THEN "escaped" ELSE IF c = "\"" THEN "outside" ELSE "string")
              ELSE (IF c = "\"" THEN "string" ELSE "outside")
              : m \in {ModeBefore(t, s, i - 1)}, c \in {CharAt(t, i - 1)} })

\* The depth after character p: the braces outside strings from s to p
DepthAfter(t, s, p) ==
  Cardinality({i \in s..p : ModeBefore(t, s, i) = "outside" /\ CharAt(t, i) = "{"})
  - Cardinality({i \in s..p : ModeBefore(t, s, i) = "outside" /\ CharAt(t, i) = "}"})

\* The first position where the depth is back to zero (0 when there is none)
ClosingBrace(t, s) ==
  LET closes == {p \in s..Len(t) : DepthAfter(t, s, p) = 0}
  IN IF closes = {} THEN 0 ELSE CHOOSE p \in closes : \A q \in closes : p <= q

\* C9: the Trailing-JSON Extractor starts at the first { of the text,
\* counts { and } outside quoted strings only, lets a backslash in a string
\* escape the next character, and takes as candidate the text from the
\* first { to the first position where the depth is back to zero; it
\* returns what the candidate decodes to, or None.
C9_BracesInStringsIgnored ==
  (Scanned /\ Contains(text, "{")) =>
    LET s == CHOOSE i \in 1..Len(text) :
               CharAt(text, i) = "{" /\ \A j \in 1..(i - 1) : CharAt(text, j) # "{"
        e == ClosingBrace(text, s)
    IN /\ start_idx = s
       /\ end_idx = e
       /\ json_data = IF e # 0 /\ \E d \in JsonDocs : d.text = SubSeq(text, s, e)
                      THEN (CHOOSE d \in JsonDocs : d.text = SubSeq(text, s, e)).value
                      ELSE None

\* A closing brace inside a string, before the brace that closes the object
C9_Witness ==
  /\ Scanned /\ text = "{\"}\"}"
  /\ start_idx = 1 /\ end_idx = 5

\* The signature rules 1 to 7 in order: the names a sample must hold all
\* of, the names it must hold one of (when there are any), and the format
SignatureRules ==
  << [all |-> {"\"type\"", "\"content_block_delta\""}, any |-> {}, format |-> "anthropic"],
     [all |-> {"\"type\"", "\"message_start\""}, any |-> {}, format |-> "anthropic"],
     [all |-> {"\"candidates\"", "\"content\"", "\"parts\""}, any |-> {}, format |-> "gemini"],
     [all |-> {"\"event_type\"", "\"workflow_id\""}, any |-> {}, format |-> "mas_response"],
     [all |-> {"\"node_id\"", "\"step\""}, any |-> {}, format |-> "mas_response"],
     [all |-> {"\"op\"", "\"path\""}, any |-> {"\"append\"", "\"add\""},
      format |-> "playground"],
     [all |-> {"\"choices\"", "\"delta\""}, any |-> {}, format |-> "orchestrator"] >>

Satisfies(sample, rule) ==
  /\ \A t \in rule.all : Contains(sample, t)
  /\ rule.any = {} \/ \E t \in rule.any : Contains(sample, t)

\* C10: detect_format returns one of anthropic, gemini, mas_response,
\* playground, orchestrator, never auto or custom: the format of the
\* lowest-numbered signature rule the first 5000 characters satisfy, and
\* orchestrator when they satisfy none.
C10_FirstMatchWins ==
  (op = "detect_format" /\ pc = "done") =>
    LET sample == SubSeq(raw_input, 1, IF Len(raw_input) < SampleLen THEN Len(raw_input)
                                       ELSE SampleLen)
        met == {r \in 1..Len(SignatureRules) : Satisfies(sample, SignatureRules[r])}
    IN /\ result \in {JStr(f) : f \in NamedFormats}
       /\ result = IF met = {} THEN JStr("orchestrator")
                   ELSE JStr(SignatureRules[CHOOSE r \in met : \A q \in met : r <= q].format)

\* An input with the signatures of Anthropic (rule 2) and of Gemini
C10_Witness ==
  /\ op = "detect_format" /\ pc = "done"
  /\ Satisfies(raw_input, SignatureRules[2]) /\ Satisfies(raw_input, SignatureRules[3])
  /\ result = JStr("anthropic")

\* raw_text and chunk_count are what the accumulator of format f, with the
\* extractor x, makes of the lines of the log
ProducedBy(f, x) ==
  /\ result.raw_text = ConcatStr(Fragments(f, x, AdmittedChunks(f, x, lines)))
  /\ result.chunk_count = Len(AdmittedChunks(f, x, lines))

\* C11: detected_format is set exactly when the caller asked for AUTO, and
\* is then the name of the format whose accumulator produced the result:
\* one of the five named formats, never auto (and never custom).
C11_DetectedFormatIffAuto ==
  Returned =>
    /\ format_type = "auto" <=> ~IsNone(result.detected_format)
    /\ format_type = "auto" =>
         /\ result.detected_format \in { JStr(f) : f \in NamedFormats }
         /\ fmt = result.detected_format.str
         /\ ProducedBy(result.detected_format.str, None)

\* An AUTO request on an Orchestrator chunk followed by an Anthropic chunk:
\* the Anthropic accumulator ran and only its chunk gave text
C11_Witness ==
  /\ Returned /\ format_type = "auto"
  /\ lines = <<"data: " \o O1.text, "data: " \o A2.text>>
  /\ result.detected_format = JStr("anthropic")
  /\ result.raw_text = "Hi" /\ result.chunk_count = 1

\* The rules of a custom_extractor, given as a dict or as an instance
AsExtractor(v) ==
  IF IsDict(v)
  THEN [extractor |->
          [content_paths |-> [i \in 1..Len(Items(Field(v, "content_paths"))) |->
                                Items(Field(v, "content_paths"))[i].str],
           usage_path |-> Field(v, "usage_path"),
           metadata_paths |-> Field(v, "metadata_paths"),
           event_filter |-> Field(v, "event_filter")]]
  ELSE v

\* The usage of the last of the chunks cs that carries one that is not null
LastUsage(cs) ==
  LET carrying == {i \in 1..Len(cs) : ~IsNone(Field(cs[i], "usage"))}
  IN IF carrying = {} THEN None
     ELSE cs[CHOOSE i \in carrying : \A j \in carrying : j <= i].obj["usage"]

\* One entry per failing line, in line order
FailingLineErrors ==
  [i \in 1..Len(FailingLines) |->
     LET msg == DecoderMessage(FailingLines[i])
     IN "JSON parse error: "
        \o (IF Len(msg) <= ErrorSliceLen THEN msg ELSE SubSeq(msg, 1, ErrorSliceLen))]

\* What the Trailing-JSON Extractor returns on the text t
TrailingJson(t) ==
  IF ~Contains(t, "{") THEN None
  ELSE LET s == Find(t, "{")
           e == ClosingBrace(t, s)
       IN IF e # 0 /\ \E d \in JsonDocs : d.text = SubSeq(t, s, e)
          THEN (CHOOSE d \in JsonDocs : d.text = SubSeq(t, s, e)).value
          ELSE None

\* The result is the one of the Orchestrator accumulator on the log
LikeOrchestrator ==
  LET cs == AdmittedChunks("orchestrator", None, lines)
      fields == {"id", "created", "model", "object", "service_tier", "system_fingerprint"}
      taken == fields \cap DOMAIN cs[1].obj
  IN /\ ProducedBy("orchestrator", None)
     /\ result.usage = LastUsage(cs)
     /\ IF cs = <<>> THEN IsNone(result.metadata)
        ELSE /\ IsDict(result.metadata)
             /\ taken \subseteq DOMAIN result.metadata.obj
             /\ DOMAIN result.metadata.obj \subseteq taken \cup {"created_formatted"}
             /\ \A k \in taken : result.metadata.obj[k] = cs[1].obj[k]
     /\ result.errors = FailingLineErrors
     /\ result.json_data = TrailingJson(result.raw_text)
     /\ IsNone(result.detected_format)

\* C12: parse_sse_logs hands each named format to its own accumulator.  A
\* CUSTOM request runs the Generic Extractor when a custom_extractor with
\* rules was supplied, as an instance or as a dict; without rules (None or
\* an empty dict) it returns what the Orchestrator accumulator returns on
\* the same input.
C12_DispatchByFormat ==
  Returned =>
    /\ format_type \in NamedFormats => (fmt = format_type /\ ProducedBy(format_type, None))
    /\ format_type = "custom" =>
         IF custom_extractor \in {None, EmptyDict}
         THEN fmt = "orchestrator" /\ LikeOrchestrator
         ELSE /\ fmt = "custom"
              /\ ProducedBy("custom", AsExtractor(custom_extractor))
              /\ result.errors = <<>>

\* A CUSTOM request with an empty dict on a log with a failing line: the
\* result has the error entry and the metadata of the Orchestrator
C12_Witness ==
  /\ Returned /\ format_type = "custom" /\ custom_extractor = EmptyDict
  /\ lines = <<"data: " \o O1.text, "data: {bad", "data: " \o O5.text>>
  /\ result.raw_text = "Hel!" /\ Len(result.errors) = 1
  /\ result.usage = JObj([total_tokens |-> JNum(9)])
  /\ result.metadata = JObj([id |-> JStr("x"), model |-> JStr("m")])

\* get_nested_value called on its own has finished
Resolved == op = "get_nested_value" /\ pc = "done"

\* The segments of the grammar the paths are made of: a bare key, or a key
\* with an index that is a number or the wildcard
GrammarSegments ==
  { [text |-> "a", key |-> "a", index |-> "none"],
    [text |-> "b", key |-> "b", index |-> "none"],
    [text |-> "a[0]", key |-> "a", index |-> "0"],
    [text |-> "a[1]", key |-> "a", index |-> "1"],
    [text |-> "b[0]", key |-> "b", index |-> "0"],
    [text |-> "a[*]", key |-> "a", index |-> "*"] }

\* The segments joined by dots
RECURSIVE Dotted(_)
Dotted(segs) ==
  IF Len(segs) = 1 THEN segs[1].text
  ELSE segs[1].text \o "." \o Dotted(Tail(segs))

SegmentLists == UNION { [1..n -> GrammarSegments] : n \in 1..MaxSegments }

\* The path is one of the grammar
OfGrammar(p) == \E segs \in SegmentLists : Dotted(segs) = p

SegmentsOf(p) == CHOOSE segs \in SegmentLists : Dotted(segs) = p

\* Resolving the segments from the node meets a missing key, a node that
\* is not a mapping under a key, a node that is not a list under an index,
\* or an index out of range
RECURSIVE Misses(_, _)
Misses(node, segs) ==
  IF segs = <<>> THEN FALSE
  ELSE LET s == Head(segs)
           under == Field(node, s.key)
           n == CHOOSE k \in 0..9 : ToString(k) = s.index
       IN IF ~IsDict(node) \/ ~HasKey(node, s.key) THEN TRUE
          ELSE IF s.index = "none" THEN Misses(under, Tail(segs))
          ELSE IF s.index = "*" THEN ~IsList(under)
          ELSE \/ ~IsList(under)
               \/ n >= Len(under.list)
               \/ Misses(under.list[n + 1], Tail(segs))

\* C13: get_nested_value is total: on every root and every path string it
\* returns a value or None and never raises, and a missing key, a node that
\* is not a mapping under a key segment, a node that is not a list under an
\* index, or an index out of range makes the whole path resolve to None.
C13_PathResolverTotal ==
  op = "get_nested_value" =>
    /\ pc # "raised"
    /\ (Resolved /\ OfGrammar(path) /\ Misses(obj, SegmentsOf(path))) => IsNone(result)

\* The Generic Extractor ran with an event filter
Filtered ==
  /\ Returned /\ fmt = "custom"
  /\ ~IsNone(AsExtractor(custom_extractor).extractor.event_filter)

\* The chunks of the log whose value at every filter key is the filter's
PassingChunks ==
  LET flt == AsExtractor(custom_extractor).extractor.event_filter.obj
      passes(line) == /\ DecodesToObject(line)
                      /\ \A k \in DOMAIN flt : Field(ObjectOf(line), k) = flt[k]
      kept == SelectSeq(lines, passes)
  IN [i \in 1..Len(kept) |-> ObjectOf(kept[i])]

\* The first value that is not None of a sequence, None when there is none
FirstNotNone(vs) == IF NonNull(vs) = <<>> THEN None ELSE NonNull(vs)[1]

\* C14: in the Generic Extractor with an event_filter, a chunk is admitted
\* exactly when its value at every filter key equals the filter's value.
\* A chunk that fails the filter is not counted and gives nothing to
\* raw_text, usage or metadata: they are what the passing chunks alone
\* give (usage the first value at usage_path, metadata the values at the
\* metadata paths of the first passing chunk that has one).
C14_EventFilterAdmission ==
  Filtered =>
    LET x == AsExtractor(custom_extractor)
        cs == PassingChunks
        metas == [i \in 1..Len(cs) |->
                    LET ks == {k \in DOMAIN x.extractor.metadata_paths.obj :
                                 ~IsNone(get_nested_value(cs[i],
                                           x.extractor.metadata_paths.obj[k].str))}
                    IN IF ks = {} THEN None
                       ELSE JObj([k \in ks |->
                                    get_nested_value(cs[i],
                                      x.extractor.metadata_paths.obj[k].str)])]
    IN /\ result.chunk_count = Len(cs)
       /\ result.raw_text =
            ConcatStr(Flatten([i \in 1..Len(cs) |-> GenericParts(x, cs[i])]))
       /\ result.usage =
            FirstNotNone([i \in 1..Len(cs) |->
                            get_nested_value(cs[i], x.extractor.usage_path.str)])
       /\ result.metadata = FirstNotNone(metas)

\* A filter of two keys on a chunk that matches type only (and carries
\* usage), a chunk that matches index only, and a chunk that matches both
C14_Witness ==
  /\ Filtered /\ custom_extractor = FilterRules
  /\ lines = <<"data: " \o F1.text, "data: " \o F2.text, "data: " \o A2.text>>
  /\ result.chunk_count = 1 /\ result.raw_text = "Hi"
  /\ IsNone(result.usage)
  /\ result.metadata = JObj([index |-> JNum(0), kind |-> JStr("text_delta")])

\* The node ids of the admitted MAS chunks of the log, each once, in the
\* order of their first chunk
OwnNodeIds ==
  LET cs == AdmittedChunks("mas_response", None, lines)
      first(i) == /\ Truthy(Field(cs[i], "node_id"))
                  /\ \A j \in 1..(i - 1) : Field(cs[j], "node_id") # Field(cs[i], "node_id")
      firsts == SelectSeq([i \in 1..Len(cs) |-> i], first)
  IN [k \in 1..Len(firsts) |-> Field(cs[firsts[k]], "node_id")]

\* The other call has returned a result for the arguments of the running
\* call
PeerHadSameArguments ==
  /\ ~IsNone(peer) /\ peer.pc \in {"done", "returned"} /\ peer.exc = ""
  /\ peer.raw_input = raw_input /\ peer.format_type = format_type
  /\ peer.custom_extractor = custom_extractor

\* C15: parse calls are independent.  The result of a call is what its
\* own arguments give, whatever call ran before it and however the steps
\* of the other call were interleaved with its own: Gemini's text is
\* diffed against the texts of its own log only, the MAS agents are the
\* nodes of its own log only, and two calls with the same arguments return
\* the same result.
C15_CallsAreIndependent ==
  Returned =>
    /\ ProducedBy(format_type, None)
    /\ (format_type = "mas_response" /\ IsDict(result.metadata)
        /\ HasKey(result.metadata, "agents")) =>
         /\ [i \in 1..Len(result.metadata.obj["agents"].list) |->
               result.metadata.obj["agents"].list[i].obj["node_id"]] = OwnNodeIds
         /\ result.metadata.obj["agent_count"] = JNum(Len(OwnNodeIds))
    /\ PeerHadSameArguments => result = peer.result

\* A Gemini call on the text "Hello world", made after a Gemini call on
\* "Hello" and another call have finished
C15_Witness ==
  /\ Returned /\ format_type = "gemini"
  /\ ~IsNone(peer) /\ peer.pc = "returned"
  /\ peer.format_type = "gemini" /\ peer.result.raw_text = "Hello"
  /\ lines = <<"data: " \o G2.text>>
  /\ result.raw_text = "Hello world"

\* The call has come to its end, by a return or by an exception
Terminated == pc \in {"done", "raised"}

\* A step inside a loop moves the loop on by one: the accumulator by one
\* line (or chunk), the scan by one character unless the character is the
\* closing brace it stops at.  No step changes the lines or the text that
\* is scanned.
LoopStep ==
  /\ (pc \in {"lines", "extract", "chunks"} /\ pc' = pc) =>
       (idx' = idx + 1 /\ lines' = lines)
  /\ pc = "lines" => idx <= Len(lines) + 1
  /\ (pc = "scan" /\ pc' = "scan") =>
       /\ text' = text
       /\ \/ pos' = pos + 1 /\ end_idx' = 0
          \/ pos' = pos /\ end_idx' = pos /\ CharAt(text, pos) = "}"

\* The step that ends the scan of a text with an opening brace leaves it
\* stopped at the end of the text, or at the first closing brace that
\* balances the first opening one
ScanStopped ==
  (pc # "scan_ret" /\ pc' = "scan_ret" /\ Contains(text', "{")) =>
    /\ end_idx' = ClosingBrace(text', start_idx')
    /\ IF end_idx' = 0 THEN pos' = Len(text') + 1 ELSE pos' = end_idx'

\* C16: every parse call on a finite input terminates.  The accumulator
\* takes the lines one by one, each exactly once; the scan of the trailing
\* JSON moves on by one character per step and stops at the end of the
\* text or at the first balanced closing brace.
C16_EveryCallTerminates ==
  /\ <>Terminated
  /\ [][LoopStep /\ ScanStopped]_vars

\* A call whose scan stopped at a balanced closing brace before the end of
\* the text, and a call whose scan ran to the end of the text
C16_Witness ==
  /\ Returned /\ Len(lines) = 3 /\ idx = 4
  /\ \/ start_idx < end_idx /\ end_idx < Len(text)
     \/ Contains(text, "{") /\ end_idx = 0 /\ pos = Len(text) + 1
  /\ lines[3] = "data: " \o O6.text

\* The Orchestrator accumulator is at work on the log, or has returned
InOrchestrator == op = "parse_sse_logs" /\ fmt = "orchestrator" /\ format_type = "orchestrator"

\* The lines the loop has been through
LinesDone == SubSeq(lines, 1, idx - 1)

\* C17: in the Orchestrator accumulator usage is last-write-wins.  After
\* every line, and in the result, usage is the usage field of the last
\* admitted chunk so far that carries one that is not null; a chunk whose
\* usage is absent or null leaves it as it was; it is None while no chunk
\* carried one.
C17_OrchestratorUsageLastWins ==
  /\ (InOrchestrator /\ pc = "lines") =>
       usage = LastUsage(AdmittedChunks("orchestrator", None, LinesDone))
  /\ (InOrchestrator /\ Returned) =>
       result.usage = LastUsage(AdmittedChunks("orchestrator", None, lines))

\* Two chunks with different usages, then a chunk whose usage is null: the
\* result has the usage of the second
C17_Witness ==
  /\ InOrchestrator /\ Returned
  /\ lines = <<O3.text, "data: " \o O5.text, "data: " \o O4.text>>
  /\ result.usage = JObj([total_tokens |-> JNum(9)])

\* The Anthropic accumulator is at work on the log, or has returned
InAnthropic == op = "parse_sse_logs" /\ fmt = "anthropic" /\ format_type = "anthropic"

\* The dict v has the key k
Carries(v, k) == IsDict(v) /\ k \in DOMAIN v.obj

\* Some chunk of the log is a message_start whose message.usage has the
\* counter input_tokens
SomeStartCarriesInput ==
  \E i \in 1..Len(lines) :
    /\ DecodesToObject(lines[i])
    /\ Field(ObjectOf(lines[i]), "type") = JStr("message_start")
    /\ Carries(Field(Field(ObjectOf(lines[i]), "message"), "usage"), "input_tokens")

\* Some chunk of the log is a message_delta whose usage has the counter
\* output_tokens
SomeDeltaCarriesOutput ==
  \E i \in 1..Len(lines) :
    /\ DecodesToObject(lines[i])
    /\ Field(ObjectOf(lines[i]), "type") = JStr("message_delta")
    /\ Carries(Field(ObjectOf(lines[i]), "usage"), "output_tokens")

\* C18: in the result of the Anthropic accumulator the key
\* usage.input_tokens exists only if some message_start chunk carried
\* message.usage.input_tokens, and the key usage.output_tokens only if some
\* message_delta chunk carried usage.output_tokens; a usage object without
\* the counter creates no key.
C18_TokenKeysOnlyFromCounters ==
  (InAnthropic /\ Returned) =>
    /\ Carries(result.usage, "input_tokens") => SomeStartCarriesInput
    /\ Carries(result.usage, "output_tokens") => SomeDeltaCarriesOutput

\* The chunk the loop has just been through, None when the line gave none
ChunkDone ==
  IF idx > 1 /\ idx - 1 <= Len(lines) /\ DecodesToObject(lines[idx - 1])
  THEN ObjectOf(lines[idx - 1]) ELSE None

\* The value is a token count: a number that is not negative
IsCount(v) == IsNum(v) /\ v.num >= 0

\* C19: in the Anthropic accumulator, once a message_delta chunk has been
\* processed and both token counts are known, usage.total_tokens is
\* input_tokens + output_tokens, for every pair of counts that are not
\* negative, a count of 0 included.
C19_TotalIsSumOfCounts ==
  ( /\ InAnthropic /\ pc = "lines"
    /\ Field(ChunkDone, "type") = JStr("message_delta")
    /\ IsCount(Field(usage, "input_tokens"))
    /\ IsCount(Field(usage, "output_tokens")) )
  => Field(usage, "total_tokens")
       = JNum(usage.obj["input_tokens"].num + usage.obj["output_tokens"].num)

\* The line the loop is about to process decodes to a chunk whose type is
\* none of the six event types, or that has no type
AtUnrecognisedChunk ==
  /\ InAnthropic /\ pc = "lines" /\ idx <= Len(lines)
  /\ DecodesToObject(lines[idx])
  /\ Field(ObjectOf(lines[idx]), "type") \notin AnthropicEventTypes

\* A step from a state at an unrecognised chunk leaves the count, the text
\* fragments, usage, metadata and errors as they were
UnrecognisedChangesNothing ==
  AtUnrecognisedChunk => UNCHANGED <<chunk_count, contents, usage, metadata, errors>>

\* C20: in the Anthropic accumulator chunk_count is the number of decoded
\* chunks whose type is one of the six event types, after every line and in
\* the result; a decoded chunk of another type, or of no type, changes
\* neither chunk_count nor raw_text, usage, metadata or errors.
C20_CountsRecognisedTypes ==
  /\ [](InAnthropic /\ pc = "lines" =>
          chunk_count = Len(AdmittedChunks("anthropic", None, LinesDone)))
  /\ [](InAnthropic /\ Returned =>
          result.chunk_count = Len(AdmittedChunks("anthropic", None, lines)))
  /\ [][UnrecognisedChangesNothing]_vars

\* A message_start, then a chunk of type error and a chunk of no type that
\* both hold a text delta and a usage: one chunk counted, no text, the usage
\* of the message_start
C20_Witness ==
  /\ InAnthropic /\ Returned
  /\ lines = <<"data: " \o A1.text, "data: " \o A14.text, "data: " \o A11.text>>
  /\ result.chunk_count = 1 /\ result.raw_text = ""
  /\ result.usage = JObj([input_tokens |-> JNum(10)])

\* The Gemini accumulator is at work on the log, or has returned
InGemini == op = "parse_sse_logs" /\ fmt = "gemini" /\ format_type = "gemini"

\* The text of the first part of the first candidate of the chunk, if any
FirstPartText(chunk) ==
  LET parts == Items(Field(Field(First(Items(Field(chunk, "candidates"))), "content"),
                           "parts"))
  IN NonNull(<<Field(First(parts), "text")>>)

\* The first-part texts of the chunks of the lines ls, in line order
FirstPartTexts(ls) ==
  LET cs == AdmittedChunks("gemini", None, ls)
  IN Flatten([i \in 1..Len(cs) |-> FirstPartText(cs[i])])

\* The last of the texts, "" when there is none
LastText(texts) == IF texts = <<>> THEN "" ELSE texts[Len(texts)].str

\* C21: in the Gemini accumulator only the text of the first part of the
\* first candidate of a chunk contributes: raw_text is made of the
\* first-part texts alone, and last_text is the last first-part text; the
\* texts of further parts and of further candidates change neither.
C21_OnlyFirstPartContributes ==
  /\ (InGemini /\ pc = "lines") => last_text = LastText(FirstPartTexts(LinesDone))
  /\ (InGemini /\ Returned) =>
       result.raw_text = ConcatStr(GeminiParts(FirstPartTexts(lines)))

\* The finishReason of the first candidate of the chunk, None without one
FinishReasonOf(chunk) == Field(First(Items(Field(chunk, "candidates"))), "finishReason")

\* The finish reasons the first candidates of the chunks cs carry, in order
FinishReasons(cs) == NonNull([i \in 1..Len(cs) |-> FinishReasonOf(cs[i])])

\* C22: in the Gemini accumulator, when some admitted chunk's first
\* candidate carries finishReason, the result's metadata.finish_reason is
\* the finishReason of the last such chunk, whether or not any chunk carried
\* modelVersion.
C22_FinishReasonOfLastChunk ==
  (InGemini /\ Returned) =>
    LET reasons == FinishReasons(AdmittedChunks("gemini", None, lines))
    IN reasons # <<>> =>
         Field(result.metadata, "finish_reason") = reasons[Len(reasons)]

\* The MAS accumulator has returned
MasReturned == Returned /\ fmt = "mas_response" /\ format_type = "mas_response"

\* The counted chunks where a node_id is seen for the first time, in order
FirstSights(cs) ==
  LET first(i) == /\ ~IsNone(Field(cs[i], "node_id"))
                  /\ \A j \in 1..(i - 1) : Field(cs[j], "node_id") # Field(cs[i], "node_id")
      at == SelectSeq([i \in 1..Len(cs) |-> i], first)
  IN [k \in 1..Len(at) |-> cs[at[k]]]

AtPlaygroundChunk ==
  /\ op = "parse_sse_logs" /\ fmt = "playground" /\ format_type = "playground"
  /\ pc = "lines" /\ idx <= Len(lines) /\ DecodesToObject(lines[idx])

\* The chunk adds an object that contains the key content
AddsObjectWithContent(chunk) ==
  /\ Field(chunk, "op") = JStr("add")
  /\ Carries(Field(chunk, "value"), "content")

\* The chunk adds or appends a value that is not null at a path that ends
\* with /content
ValueAtContentPath(chunk) ==
  /\ Field(chunk, "op") \in {JStr("add"), JStr("append")}
  /\ IsStr(Field(chunk, "path")) /\ EndsWith(Field(chunk, "path").str, "/content")
  /\ ~IsNone(Field(chunk, "value"))

\* The step appends the string form of v to the contents, and nothing else
Appends(v) == contents' = Append(contents, JStr(PyStr(v)))

\* Playground results carry no usage and no metadata
PlaygroundHasNoUsage ==
  (Returned /\ format_type = "playground") =>
    (IsNone(result.usage) /\ IsNone(result.metadata))

\* The cases as the claim words them: an added object that contains content
\* always appends its content
PlaygroundStepAsWorded ==
  AtPlaygroundChunk =>
    LET chunk == ObjectOf(lines[idx])
    IN IF AddsObjectWithContent(chunk) THEN Appends(Field(chunk, "value").obj["content"])
       ELSE IF ValueAtContentPath(chunk) THEN Appends(Field(chunk, "value"))
       ELSE contents' = contents

\* The cases with the content of the added object required to be non-null
PlaygroundStep ==
  AtPlaygroundChunk =>
    LET chunk == ObjectOf(lines[idx])
    IN IF AddsObjectWithContent(chunk)
       THEN IF IsNone(Field(chunk, "value").obj["content"]) THEN contents' = contents
            ELSE Appends(Field(chunk, "value").obj["content"])
       ELSE IF ValueAtContentPath(chunk) THEN Appends(Field(chunk, "value"))
       ELSE contents' = contents

\* C24 as stated: a Playground chunk appends content exactly when op is add
\* and value is an object containing content (its content), or op is add or
\* append, value is no such object, the path ends with /content and value is
\* non-null (the value); usage and metadata of the result are None.
C24_AppendsWheneverContentKey ==
  [][PlaygroundStepAsWorded]_vars /\ []PlaygroundHasNoUsage

\* C24, amended: a Playground chunk appends content exactly when op is add
\* and value is an object containing a content that is not null (the string
\* form of its content), or op is add, value is not an object containing
\* content, the path ends with /content and value is non-null (the string
\* form of value), or op is append, the path ends with /content and value
\* is non-null (the string form of value).  An added object whose content is
\* null appends nothing, whatever its path.  Usage and metadata of the
\* result are None.
C24_PlaygroundAppendCases ==
  [][PlaygroundStep]_vars /\ []PlaygroundHasNoUsage

\* An added object with a null content at a path that ends with /content,
\* then an added object with content and an appended number
C24_Witness ==
  /\ Returned /\ format_type = "playground"
  /\ lines = <<"data: " \o P6.text, "data: " \o P1.text, "data:" \o P3.text>>
  /\ result.raw_text = "He5" /\ result.chunk_count = 3

\* The Generic Extractor is at work on the log, or has returned
InGeneric == op = "parse_sse_logs" /\ fmt = "custom" /\ format_type = "custom"

\* What usage_path resolves to in each of the chunks cs the extractor
\* admits, in order
UsageValues(cs) ==
  LET x == AsExtractor(custom_extractor)
      admitted(chunk) == Admitted("custom", x, chunk)
      kept == SelectSeq(cs, admitted)
  IN [i \in 1..Len(kept) |-> get_nested_value(kept[i], x.extractor.usage_path.str)]

\* A usage that has been captured stays as it is
UsageKept == (InGeneric /\ ~IsNone(usage)) => usage' = usage

\* C25: in the Generic Extractor usage is first-write-wins.  After every
\* chunk, and in the result, usage is what usage_path resolves to in the
\* first admitted chunk where that is not null (None while there is none),
\* and no later chunk changes a captured usage, whatever its own usage.
C25_GenericUsageFirstWins ==
  /\ []((InGeneric /\ pc = "chunks") =>
          usage = FirstNotNone(UsageValues(SubSeq(chunks, 1, idx - 1))))
  /\ []((InGeneric /\ Returned) => result.usage = FirstNotNone(UsageValues(chunks)))
  /\ [][UsageKept]_vars

\* A chunk whose usage is null, then two chunks with different usages: the
\* result has the usage of the second chunk
C25_Witness ==
  /\ InGeneric /\ Returned
  /\ lines = <<"data: " \o O4.text, O3.text, "data: " \o O5.text>>
  /\ result.usage = JObj([total_tokens |-> JNum(5)])

\* The node the segments lead to from the node, None when they lead
\* nowhere; the segments hold no wildcard
RECURSIVE Reach(_, _)
Reach(node, segs) ==
  IF segs = <<>> THEN node
  ELSE LET s == Head(segs)
           under == Field(node, s.key)
           n == CHOOSE k \in 0..9 : ToString(k) = s.index
       IN IF s.index = "none" THEN Reach(under, Tail(segs))
          ELSE IF IsList(under) /\ n < Len(under.list)
          THEN Reach(under.list[n + 1], Tail(segs))
          ELSE None

\* The position of the first wildcard segment, 0 when there is none
FirstWildcard(segs) ==
  LET at == {k \in 1..Len(segs) : segs[k].index = "*"}
  IN IF at = {} THEN 0 ELSE CHOOSE k \in at : \A q \in at : k <= q

ScanReturned == op = "extract_json_from_text" /\ pc = "done"

\* The text is a JSON document
IsJsonText(t) == \E d \in JsonDocs : d.text = t

\* C27: the Trailing-JSON Extractor considers only the first balanced
\* top-level object.  The result on a text is the result on the text cut
\* after the closing brace of that object, so what follows the brace never
\* changes it; the result is None when no balanced closing brace is found
\* or the candidate does not decode, even when a later part of the text is
\* a valid JSON object.
C27_OnlyFirstBalancedObject ==
  ScanReturned =>
    IF ~Contains(text, "{") THEN IsNone(result)
    ELSE LET s == Find(text, "{")
             e == ClosingBrace(text, s)
         IN /\ e = 0 => IsNone(result)
            /\ (e # 0 /\ ~IsJsonText(SubSeq(text, s, e))) => IsNone(result)
            /\ e # 0 => result = TrailingJson(SubSeq(text, 1, e))

\* A candidate that does not decode, followed by a valid JSON object
C27_Witness ==
  /\ ScanReturned /\ text = "{\"\"}{}"
  /\ end_idx = 4 /\ IsJsonText(SubSeq(text, 5, 6))
  /\ IsNone(result)

\* The scan of extract_json_from_text has started (and may have ended)
ScanStarted == op = "extract_json_from_text" /\ pc \in {"scan", "scan_ret", "done"}
               /\ Contains(text, "{")

\* C28: during the scan of extract_json_from_text the brace depth is never
\* negative.  It is 0 before the first character, 1 after it and at least 1
\* after every later character until the scan stops; the scan stops at the
\* first index where the depth is back to 0, so the candidate starts with
\* '{' and ends with '}'.
C28_DepthNeverNegative ==
  ScanStarted =>
    /\ depth >= 0
    /\ CharAt(text, start_idx) = "{"
    /\ (pos = start_idx /\ end_idx = 0) => depth = 0
    /\ (pos = start_idx + 1 /\ end_idx = 0) => depth = 1
    /\ (pos > start_idx /\ end_idx = 0) => depth >= 1
    /\ end_idx # 0 =>
         /\ depth = 0 /\ pos = end_idx
         /\ end_idx = ClosingBrace(text, start_idx)
         /\ CharAt(text, end_idx) = "}"

\* A nested object followed by another object: the scan went to depth 2 and
\* stopped at the brace that closes the first object
C28_Witness ==
  /\ ScanStarted /\ pc = "scan_ret" /\ text = "{{}}{}"
  /\ start_idx = 1 /\ end_idx = 4 /\ depth = 0

\* The accumulator of a named format is about to process a sentinel line
AtSentinelLine ==
  /\ op = "parse_sse_logs" /\ fmt \in NamedFormats
  /\ pc = "lines" /\ idx <= Len(lines) /\ IsSentinel(lines[idx])

\* The step over a sentinel line leaves the whole accumulator state as it
\* was and moves on to the next line
SentinelLeavesState ==
  AtSentinelLine =>
    /\ UNCHANGED <<contents, usage, metadata, chunk_count, last_text, agents_seen, errors>>
    /\ idx' = idx + 1 /\ pc' = pc

\* The call on the log without its sentinel lines has returned
BothReturned == Returned /\ ~IsNone(peer) /\ peer.pc = "done"

\* C29: in each of the five named-format accumulators a sentinel line
\* ([DONE], start, end, reserved, bare or after 'data:' or 'data: ') leaves
\* the whole accumulator state unchanged: no count, no error entry, no
\* content, also in the Playground accumulator whose sentinel set omits
\* [DONE]; and the result on a log equals the result on the log without its
\* sentinel lines.
C29_SentinelsChangeNothing ==
  /\ [][SentinelLeavesState]_vars
  /\ [](BothReturned => result = peer.result)

\* A Playground log with [DONE] between a line that fails to decode and a
\* chunk, and the same log without [DONE]: one error, one chunk, the same
\* result
C29_Witness ==
  /\ BothReturned /\ format_type = "playground"
  /\ peer.lines = <<"data: {bad", "data:[DONE]">>
  /\ lines = <<"data: {bad">>
  /\ Len(result.errors) = 1 /\ result.chunk_count = 0
  /\ result = peer.result

\* The Generic Extractor has returned from a call with the built-in openai
\* preset
OpenaiPresetReturned ==
  /\ Returned /\ format_type = "custom" /\ fmt = "custom"
  /\ custom_extractor = ExtractorObject(BuiltinOpenai)

\* The value is absent or a string
StrOrAbsent(v) == IsNone(v) \/ IsStr(v)

\* A well-formed OpenAI-style chunk: choices, when present, is a list of
\* objects whose delta is an object with a content that is a string and
\* tool_calls that are a list of objects with a function whose arguments
\* are a string
WellFormedOpenai(chunk) ==
  LET choices == Field(chunk, "choices")
      okCall(tc) == IsDict(tc) /\ IsDict(Field(tc, "function"))
                    /\ StrOrAbsent(Field(Field(tc, "function"), "arguments"))
      okDelta(d) == /\ IsDict(d) /\ StrOrAbsent(Field(d, "content"))
                    /\ \/ IsNone(Field(d, "tool_calls"))
                       \/ /\ IsList(Field(d, "tool_calls"))
                          /\ \A i \in 1..Len(Field(d, "tool_calls").list) :
                               okCall(Field(d, "tool_calls").list[i])
  IN \/ IsNone(choices)
     \/ /\ IsList(choices)
        /\ \A i \in 1..Len(choices.list) :
             IsDict(choices.list[i]) /\ okDelta(Field(choices.list[i], "delta"))

\* Every line of the log is a well-formed OpenAI-style chunk
AllWellFormedOpenai ==
  \A i \in 1..Len(lines) :
    DecodesToObject(lines[i]) /\ WellFormedOpenai(ObjectOf(lines[i]))

\* C30: the Generic Extractor with the built-in openai preset yields the
\* raw_text and the chunk_count of the Orchestrator accumulator on every
\* input of well-formed OpenAI-style chunks, chunks whose delta carries
\* tool_calls with function.arguments included.
C30_OpenaiPresetLikeOrchestrator ==
  (OpenaiPresetReturned /\ AllWellFormedOpenai) =>
    LET cs == AdmittedChunks("orchestrator", None, lines)
    IN /\ result.raw_text = ConcatStr(Fragments("orchestrator", None, cs))
       /\ result.chunk_count = Len(cs)

====
